---- MODULE Spec2Model ----
(***************************************************************************)
(* Model of the data adapter of the Tesla dashboard (src/data_processor.py) *)
(* and of the state its callers share with it: the wall clock, the global  *)
(* numpy random generator, and the statement tables handed to the ratio    *)
(* calculation.                                                            *)
(*                                                                         *)
(* Conventions                                                             *)
(*  - a calendar date without time of day (the page passes the values of   *)
(*    st.date_input to get_stock_data) is a day ordinal, an integer;       *)
(*  - the wall clock `now` is a record [y, m, d];                          *)
(*  - a call that raises is a result with raised # "none";                 *)
(*  - a float is a fixed-point integer with FP fractional units            *)
(*    (deliveries) or a tagged value num / nan / inf (ratios).             *)
(***************************************************************************)
EXTENDS Integers, Sequences, FiniteSets, TLC

VARIABLES
    now,        \* wall clock read by datetime.now()
    rng,        \* state of numpy's global random generator
    last,       \* the most recent completed adapter call and its result
    dlog,       \* results of get_tesla_delivery_data in this date context
    financials, \* the statements object a caller passes to the ratios
    rlog,       \* results of calculate_financial_ratios on `financials`
    pc,         \* position of each concurrent caller
    loc,        \* locals of each concurrent caller
    build,      \* the libraries the process runs with
    heap,       \* the tables alive in the process, each an object with an identity
    cache,      \* entries of st.cache_data, per memoized function
    provider    \* what Yahoo Finance does when asked

vars == <<now, rng, last, dlog, financials, rlog, pc, loc, build, heap, cache, provider>>

-----------------------------------------------------------------------------
(* Bounds *)

MaxDay == 4         \* day ordinals 0..MaxDay are the start and end dates
MaxYear == 2025     \* the wall clock runs from January 2019 to December MaxYear

-----------------------------------------------------------------------------
(* Generic helpers *)

Range(s) == {s[i] : i \in DOMAIN s}

NoCall == [op |-> "none"]

-----------------------------------------------------------------------------
(* get_stock_data *)

Tickers == {"TSLA", "F"}

\* what yf.download can do: raise, return an empty frame, return rows
ProviderExceptions == {"ConnectionError", "ValueError", "KeyError"}

PriceColumns == <<"Open", "High", "Low", "Close", "Adj Close", "Volume">>

\* pd.date_range(start=start_date, end=end_date): daily, both ends included
RECURSIVE DateRangeFrom(_, _)
DateRangeFrom(d, end) ==
    IF d > end THEN <<>> ELSE <<d>> \o DateRangeFrom(d + 1, end)

DateRangeExclusiveEnd(start, end) == DateRangeFrom(start, end - 1)

DateRange(start, end) == DateRangeFrom(start, end)

\* pd.DataFrame(index=..., columns=[...]) with no data: every cell is NaN
EmptyFrame(index, columns) ==
    [index |-> index,
     columns |-> columns,
     cells |-> [r \in 1..Len(index) |-> [c \in Range(columns) |-> "NaN"]]]

\* the rows yf.download returns for [start, end): end is exclusive there
ProviderFrame(start, end) ==
    LET idx == DateRangeFrom(start, end - 1)
    IN  [index |-> idx,
         columns |-> PriceColumns,
         cells |-> [r \in 1..Len(idx) |-> [c \in Range(PriceColumns) |-> "px"]]]

NoFrame == [index |-> <<>>, columns |-> <<>>, cells |-> <<>>]

DownloadOutcomes(start, end) ==
    {[kind |-> "raise", exc |-> x, frame |-> NoFrame] : x \in ProviderExceptions}
    \cup {[kind |-> "empty", exc |-> "none", frame |-> EmptyFrame(<<>>, PriceColumns)]}
    \cup (IF start < end
          THEN {[kind |-> "data", exc |-> "none", frame |-> ProviderFrame(start, end)]}
          ELSE {})

\* `except ValueError`: a narrower handler than the code's
CatchesValueErrorOnly(exc) == exc = "ValueError"

\* `except Exception`: every exception the provider raises is one
ExceptClause(exc) == exc \in ProviderExceptions

GetStockData(ticker, start, end, prov) ==
    IF prov.kind = "raise"
    THEN IF ExceptClause(prov.exc)
         THEN [raised |-> "none",
               printed |-> <<"Error fetching stock data">>,
               frame |-> EmptyFrame(DateRange(start, end), PriceColumns)]
         ELSE [raised |-> prov.exc, printed |-> <<>>, frame |-> NoFrame]
    ELSE IF prov.frame.index = <<>>
    THEN [raised |-> "none", printed |-> <<>>,
          frame |-> EmptyFrame(DateRange(start, end), PriceColumns)]
    ELSE [raised |-> "none", printed |-> <<>>, frame |-> prov.frame]

CallGetStockData ==
    \E t \in Tickers, s \in 0..MaxDay, e \in 0..MaxDay :
      \E prov \in DownloadOutcomes(s, e) :
        /\ last' = [op |-> "get_stock_data", ticker |-> t, start |-> s,
                    end |-> e, prov |-> prov, out |-> GetStockData(t, s, e, prov)]
        /\ UNCHANGED <<now, rng, dlog, financials, rlog, pc, loc, build, heap, cache, provider>>

-----------------------------------------------------------------------------
(* Initial values of the state a specification does not use *)

Jan2019 == [y |-> 2019, m |-> 1, d |-> 1]
\* the generator as the process start leaves it: seeded, nothing drawn
FreshRng == [seed |-> 7, pos |-> 0]
NoFinancials == [op |-> "none"]
\* a process that has memoized nothing
NoCache ==
    [load_tesla_data |-> <<>>, load_financial_statements |-> <<>>,
     load_delivery_data |-> <<>>]

InitPrice ==
    /\ now = Jan2019
    /\ rng = FreshRng
    /\ last = NoCall
    /\ dlog = <<>>
    /\ financials = NoFinancials
    /\ rlog = <<>>
    /\ pc = <<>>
    /\ loc = <<>>
    /\ build = [pandas |-> 2]
    /\ heap = <<>>
    /\ cache = NoCache
    /\ provider = "up"

NextPrice == CallGetStockData

SpecPrice == InitPrice /\ [][NextPrice]_vars

-----------------------------------------------------------------------------
(* Claims on get_stock_data *)

IsPriceCall == last.op = "get_stock_data"

ProviderUnavailable == last.prov.kind \in {"raise", "empty"}

\* C1: when the provider raises or returns nothing and start <= end, the
\* result has one row per calendar day from start to end inclusive
\* (end - start + 1 rows), the six price columns, and NaN in every cell.
C1_PlaceholderSpansRange ==
    (IsPriceCall /\ ProviderUnavailable /\ last.start <= last.end) =>
        LET f == last.out.frame
        IN  /\ Len(f.index) = last.end - last.start + 1
            /\ \A i \in 1..Len(f.index) : f.index[i] = last.start + i - 1
            /\ f.columns = <<"Open", "High", "Low", "Close", "Adj Close", "Volume">>
            /\ Len(f.cells) = Len(f.index)
            /\ \A i \in 1..Len(f.cells) :
                 \A c \in Range(f.columns) : f.cells[i][c] = "NaN"

C1_Witness ==
    /\ IsPriceCall
    /\ last.prov.kind = "raise"
    /\ last.start < last.end
    /\ Len(last.out.frame.index) = 3

\* C2: whatever the provider does (raise, empty, rows), get_stock_data
\* returns a table and raises nothing; a provider exception is only printed.
C2_NeverRaises ==
    IsPriceCall =>
        /\ last.out.raised = "none"
        /\ last.out.frame.columns = PriceColumns
        /\ (last.prov.kind = "raise" =>
              last.out.printed = <<"Error fetching stock data">>)
        /\ (last.prov.kind = "data" => last.out.frame = last.prov.frame)

C2_Witness ==
    /\ IsPriceCall
    /\ last.prov.kind = "raise"
    /\ last.prov.exc = "ConnectionError"
    /\ last.out.raised = "none"

\* C3 (as claimed): a call with start later than end is rejected with an
\* InvalidArgument failure and returns no table.
C3_RejectsInvertedRange ==
    (IsPriceCall /\ last.start > last.end) =>
        /\ last.out.raised = "InvalidArgument"
        /\ last.out.frame = NoFrame

-----------------------------------------------------------------------------
(* The wall clock and pandas' calendar offsets *)

IsLeap(y) == (y % 4 = 0 /\ y % 100 # 0) \/ y % 400 = 0

DaysInMonth(y, m) ==
    IF m = 2 THEN (IF IsLeap(y) THEN 29 ELSE 28)
    ELSE IF m \in {4, 6, 9, 11} THEN 30 ELSE 31

Date(y, m, d) == [y |-> y, m |-> m, d |-> d]

\* an order-preserving key of a date
DateNum(dt) == dt.y * 10000 + dt.m * 100 + dt.d

MonthEnd(y, m) == Date(y, m, DaysInMonth(y, m))

\* the clock values the model visits: mid-month and month-end days
Clock ==
    UNION {{Date(y, m, 15), MonthEnd(y, m)} : y \in 2019..MaxYear, m \in 1..12}

NextClock(dt) ==
    IF dt.d < DaysInMonth(dt.y, dt.m) THEN MonthEnd(dt.y, dt.m)
    ELSE IF dt.m < 12 THEN Date(dt.y, dt.m + 1, 15)
    ELSE Date(dt.y + 1, 1, 15)

\* QuarterEnd(startingMonth=3).is_on_offset / YearEnd(month=12).is_on_offset
OnQuarterEnd(dt) == dt.m % 3 = 0 /\ dt.d = DaysInMonth(dt.y, dt.m)
OnYearEnd(dt) == dt.m = 12 /\ dt.d = 31

\* the i-th quarter end counted from the one of March of year 0
QuarterEndAt(i) == MonthEnd(i \div 4, 3 * ((i % 4) + 1))
QuarterIndex(dt) == dt.y * 4 + (dt.m \div 3) - 1

\* offset.rollforward(dt) for QuarterEnd: the first quarter end >= dt
QuarterRollforward(dt) ==
    IF OnQuarterEnd(dt) THEN dt
    ELSE QuarterEndAt(dt.y * 4 + ((dt.m - 1) \div 3))

\* offset.rollback(dt) for QuarterEnd: the last quarter end <= dt
QuarterRollback(dt) ==
    IF OnQuarterEnd(dt) THEN dt
    ELSE QuarterEndAt(dt.y * 4 + ((dt.m - 1) \div 3) - 1)

\* offset.rollback(dt) for YearEnd: the last 31 December <= dt
YearRollback(dt) == IF OnYearEnd(dt) THEN dt ELSE Date(dt.y - 1, 12, 31)

\* pd.date_range(end=end, periods=n, freq='Q'), oldest first
QuarterRangeEnding(end, n) ==
    LET e == QuarterIndex(QuarterRollback(end))
    IN  [i \in 1..n |-> QuarterEndAt(e - (n - i))]

\* pd.date_range(end=end, periods=n, freq='Y'), oldest first
YearRangeEnding(end, n) ==
    LET e == YearRollback(end).y
    IN  [i \in 1..n |-> Date(e - (n - i), 12, 31)]

\* time passes between two requests; the tables of the finished request,
\* which its caller owned, are gone with it
Tick ==
    /\ NextClock(now) \in Clock
    /\ now' = NextClock(now)
    /\ last' = NoCall
    /\ dlog' = <<>>
    /\ UNCHANGED <<rng, financials, rlog, pc, loc, build, heap, cache, provider>>

-----------------------------------------------------------------------------
(* get_financial_statements and create_default_financial_df *)

Cadences == {"quarterly", "annual", "monthly"}

IncomeItems ==
    <<"Total Revenue", "Cost Of Revenue", "Gross Profit", "Operating Expense",
      "Operating Income", "Net Income">>
BalanceItems ==
    <<"Total Assets", "Total Liabilities", "Total Stockholder Equity",
      "Cash And Cash Equivalents", "Short Term Investments", "Inventory">>
CashItems ==
    <<"Operating Cash Flow", "Capital Expenditure", "Free Cash Flow",
      "Dividend Payout", "Cash From Financing", "Cash From Investment">>

QuarterlyPeriods == 8
AnnualPeriods == 5

\* a statement: line items are the rows, period ends the columns
Statement(items, periods, cells) ==
    [items |-> items, periods |-> periods, cells |-> cells]

NoStatement == Statement(<<>>, <<>>, <<>>)

\* DataFrame.empty: an axis of length 0
IsEmpty(df) == Len(df.items) = 0 \/ Len(df.periods) = 0

\* pd.date_range(end=now, periods=8, freq='Q') rolled forward, not back
PlaceholderDatesRolledForward(period, clock) ==
    IF period = "quarterly"
    THEN LET e == QuarterIndex(QuarterRollforward(clock))
         IN  [i \in 1..QuarterlyPeriods |-> QuarterEndAt(e - (QuarterlyPeriods - i))]
    ELSE YearRangeEnding(clock, AnnualPeriods)

PlaceholderDates(period, clock) ==
    IF period = "quarterly"
    THEN QuarterRangeEnding(clock, QuarterlyPeriods)
    ELSE YearRangeEnding(clock, AnnualPeriods)

CreateDefaultFinancialDf(period, statement_type, clock) ==
    LET dates == PlaceholderDates(period, clock)
        columns == IF statement_type = "income" THEN IncomeItems
                   ELSE IF statement_type = "balance" THEN BalanceItems
                   ELSE CashItems
    IN  Statement(columns, dates,
                  [c \in Range(columns) |-> [i \in 1..Len(dates) |-> 0]])

\* statements the provider may return when it has data
LivePeriods == <<Date(2018, 9, 30), Date(2018, 12, 31)>>
LiveIncome ==
    Statement(<<"Total Revenue", "Gross Profit", "Operating Income", "Net Income">>,
              LivePeriods,
              [c \in {"Total Revenue", "Gross Profit", "Operating Income", "Net Income"} |->
                 IF c = "Total Revenue" THEN <<4, 2>> ELSE <<1, 3>>])
LiveBalance ==
    Statement(<<"Total Assets", "Total Stockholder Equity">>, LivePeriods,
              [c \in {"Total Assets", "Total Stockholder Equity"} |-> <<4, 4>>])
LiveCash ==
    Statement(<<"Operating Cash Flow">>, LivePeriods,
              [c \in {"Operating Cash Flow"} |-> <<1, 1>>])

StatementOutcomes(live) ==
    {[kind |-> "raise", exc |-> "ConnectionError", frame |-> NoStatement],
     [kind |-> "empty", exc |-> "none", frame |-> NoStatement],
     [kind |-> "data", exc |-> "none", frame |-> live]}

\* not read: an earlier step of the call raised
NotRead == [kind |-> "unread", exc |-> "none", frame |-> NoStatement]

\* what yf.Ticker and its three statement properties do in one call
TickerOutcomes ==
    {[ticker |-> "ConnectionError", income |-> NotRead, balance |-> NotRead,
      cash |-> NotRead]}
    \cup [ticker : {"none"},
          income : StatementOutcomes(LiveIncome),
          balance : StatementOutcomes(LiveBalance),
          cash : StatementOutcomes(LiveCash)]

RaisedStatements(exc) ==
    [raised |-> exc, income_statement |-> NoStatement,
     balance_sheet |-> NoStatement, cash_flow |-> NoStatement]

\* a variant that hands out the placeholder whatever the provider returned
AlwaysDefault(df, period, statement_type, clock) ==
    CreateDefaultFinancialDf(period, statement_type, clock)

\* if df.empty: df = create_default_financial_df(period, statement_type)
OrDefault(df, period, statement_type, clock) ==
    IF IsEmpty(df) THEN CreateDefaultFinancialDf(period, statement_type, clock) ELSE df

\* no try/except surrounds the provider reads: the first exception propagates
GetFinancialStatements(ticker, period, prov, clock) ==
    IF prov.ticker # "none" THEN RaisedStatements(prov.ticker)
    ELSE IF prov.income.kind = "raise" THEN RaisedStatements(prov.income.exc)
    ELSE IF prov.balance.kind = "raise" THEN RaisedStatements(prov.balance.exc)
    ELSE IF prov.cash.kind = "raise" THEN RaisedStatements(prov.cash.exc)
    ELSE [raised |-> "none",
          income_statement |-> OrDefault(prov.income.frame, period, "income", clock),
          balance_sheet |-> OrDefault(prov.balance.frame, period, "balance", clock),
          cash_flow |-> OrDefault(prov.cash.frame, period, "cash", clock)]

CallGetFinancialStatements ==
    \E t \in {"TSLA"}, period \in Cadences, prov \in TickerOutcomes :
        /\ last' = [op |-> "get_financial_statements", ticker |-> t,
                    period |-> period, prov |-> prov, clock |-> now,
                    out |-> GetFinancialStatements(t, period, prov, now)]
        /\ UNCHANGED <<now, rng, dlog, financials, rlog, pc, loc, build, heap, cache, provider>>

InitFin ==
    /\ now \in Clock
    /\ rng = FreshRng
    /\ last = NoCall
    /\ dlog = <<>>
    /\ financials = NoFinancials
    /\ rlog = <<>>
    /\ pc = <<>>
    /\ loc = <<>>
    /\ build = [pandas |-> 2]
    /\ heap = <<>>
    /\ cache = NoCache
    /\ provider = "up"

NextFin == CallGetFinancialStatements \/ Tick

SpecFin == InitFin /\ [][NextFin]_vars

-----------------------------------------------------------------------------
(* Claims on get_financial_statements *)

IsStatementsCall == last.op = "get_financial_statements"

ExpectedPeriods(period) ==
    IF period = "quarterly" THEN 8 ELSE 5

\* df is the all-zero placeholder of n periods, none of them after the clock
IsPlaceholder(df, n, clock) ==
    /\ Len(df.periods) = n
    /\ Len(df.items) = 6
    /\ \A c \in Range(df.items) :
         /\ Len(df.cells[c]) = n
         /\ \A i \in 1..n : df.cells[c][i] = 0
    /\ \A i \in 1..n : DateNum(df.periods[i]) <= DateNum(clock)

\* C4: a statement the provider returns empty is replaced by a placeholder
\* of exactly 8 periods (quarterly) or 5 periods (annual), every line item 0
\* in every period, and no period after the current time.
C4_EmptyStatementPlaceholder ==
    (IsStatementsCall /\ last.out.raised = "none"
        /\ last.period \in {"quarterly", "annual"}) =>
        LET n == ExpectedPeriods(last.period)
        IN  /\ (last.prov.income.kind = "empty" =>
                  IsPlaceholder(last.out.income_statement, n, last.clock))
            /\ (last.prov.balance.kind = "empty" =>
                  IsPlaceholder(last.out.balance_sheet, n, last.clock))
            /\ (last.prov.cash.kind = "empty" =>
                  IsPlaceholder(last.out.cash_flow, n, last.clock))

C4_Witness ==
    /\ IsStatementsCall
    /\ last.period = "quarterly"
    /\ last.prov.income.kind = "empty"
    /\ last.prov.balance.kind = "data"
    /\ last.out.raised = "none"
    /\ ~OnQuarterEnd(last.clock)
    /\ Len(last.out.income_statement.periods) = 8

ProviderFails ==
    \/ last.prov.ticker # "none"
    \/ last.prov.income.kind = "raise"
    \/ last.prov.balance.kind = "raise"
    \/ last.prov.cash.kind = "raise"

\* C5 (as claimed): when the provider fails (the Ticker object or one of
\* the statement reads raises), get_financial_statements raises nothing and
\* returns three all-zero placeholders of 8 (quarterly) or 5 (annual) periods.
C5_FailingProviderPlaceholders ==
    (IsStatementsCall /\ ProviderFails
        /\ last.period \in {"quarterly", "annual"}) =>
        LET n == ExpectedPeriods(last.period)
        IN  /\ last.out.raised = "none"
            /\ IsPlaceholder(last.out.income_statement, n, last.clock)
            /\ IsPlaceholder(last.out.balance_sheet, n, last.clock)
            /\ IsPlaceholder(last.out.cash_flow, n, last.clock)

\* the statement of the result that answers a provider read
Substituted(read, given, n, clock) ==
    /\ read.kind = "data" => given = read.frame
    /\ read.kind = "empty" => IsPlaceholder(given, n, clock)

\* C27: a call of get_financial_statements that the provider lets complete
\* passes on unchanged each statement the provider returned non-empty and
\* replaces each empty one by its placeholder, so a result may mix the two;
\* a cadence other than 'quarterly' is served as annual, with placeholders
\* of 5 periods, and is not rejected.
C27_IndependentSubstitution ==
    (IsStatementsCall /\ ~ProviderFails) =>
        LET n == IF last.period = "quarterly" THEN QuarterlyPeriods ELSE AnnualPeriods
        IN  /\ last.out.raised = "none"
            /\ Substituted(last.prov.income, last.out.income_statement, n, last.clock)
            /\ Substituted(last.prov.balance, last.out.balance_sheet, n, last.clock)
            /\ Substituted(last.prov.cash, last.out.cash_flow, n, last.clock)

C27_Witness ==
    /\ IsStatementsCall
    /\ last.period = "monthly"
    /\ last.prov.income.kind = "data"
    /\ last.prov.balance.kind = "empty"
    /\ last.prov.cash.kind = "data"
    /\ last.out.income_statement = LiveIncome
    /\ Len(last.out.balance_sheet.periods) = 5
    /\ last.out.balance_sheet.cells["Total Assets"] = <<0, 0, 0, 0, 0>>

-----------------------------------------------------------------------------
(* calculate_financial_ratios *)

MaxCalls == 2       \* calls of calculate_financial_ratios on one statements object

\* a float64 cell: a number, NaN, or an infinity (v is its sign)
Num(v) == [k |-> "num", v |-> v]
NaN == [k |-> "nan", v |-> 0]
Inf(sign) == [k |-> "inf", v |-> sign]

\* (a / b) * 100 on float64 series: dividing by 0 raises nothing, it gives
\* NaN for 0/0 and a signed infinity otherwise.  The model's inputs make
\* every finite quotient exact.
Div100(a, b) ==
    IF b = 0
    THEN IF a = 0 THEN NaN ELSE IF a > 0 THEN Inf(1) ELSE Inf(-1)
    ELSE Num((a * 100) \div b)

HasItem(df, item) == item \in Range(df.items)

\* the first period of the other frame, whatever the period asked for
PeriodPosFirst(df, d) == 1

\* the place of a period label in a frame that has it
PeriodPos(df, d) == CHOOSE i \in 1..Len(df.periods) : df.periods[i] = d

\* df_num.loc[num] / df_den.loc[den] * 100, aligned on the periods of the
\* income statement; .loc raises KeyError for an absent line item
RatioExpr(inc, num, dent, den) ==
    IF ~HasItem(inc, num) \/ ~HasItem(dent, den)
    THEN [exc |-> "KeyError", col |-> <<>>]
    ELSE [exc |-> "none",
          col |-> [i \in 1..Len(inc.periods) |->
                    IF inc.periods[i] \in Range(dent.periods)
                    THEN Div100(inc.cells[num][i],
                                dent.cells[den][PeriodPos(dent, inc.periods[i])])
                    ELSE NaN]]

\* `except (KeyError, ZeroDivisionError)`
RatioExcept(exc) == exc \in {"KeyError", "ZeroDivisionError"}

\* ratios = pd.DataFrame(index=income_stmt.columns): a new object
NewRatios(inc) == [items |-> <<>>, periods |-> inc.periods, cells |-> <<>>]

\* a store that also lands in the income statement, as if `ratios` were it
StoreRatioAliased(env, name, col) ==
    [env EXCEPT !.ratios.items = Append(@, name),
                !.ratios.cells = (name :> col) @@ @,
                !.income_statement.items = Append(@, name),
                !.income_statement.cells = (name :> col) @@ @]

\* ratios[name] = col
StoreRatio(env, name, col) ==
    [env EXCEPT !.ratios.items = Append(@, name),
                !.ratios.cells = (name :> col) @@ @]

\* one try block of the function
TryRatio(env, name, num, dent, den) ==
    IF env.raised # "none" THEN env
    ELSE LET r == RatioExpr(env.income_statement, num, dent, den)
             n == Len(env.income_statement.periods)
         IN  IF r.exc = "none" THEN StoreRatio(env, name, r.col)
             ELSE IF RatioExcept(r.exc)
             THEN StoreRatio(env, name, [i \in 1..n |-> NaN])
             ELSE [env EXCEPT !.raised = r.exc]

\* no fillna
KeepNa(x) == x

\* fillna(0) on one cell
FillNa(x) == IF x.k = "nan" THEN Num(0) ELSE x

\* ratios.fillna(0).T
FillAndTranspose(df) ==
    [items |-> df.items, periods |-> df.periods,
     cells |-> [c \in DOMAIN df.cells |->
                 [i \in 1..Len(df.cells[c]) |-> FillNa(df.cells[c][i])]]]

\* the call: what it returns and what it leaves in the statements it was given
CalculateFinancialRatios(fin) ==
    LET e0 == [raised |-> "none",
               income_statement |-> fin.income_statement,
               balance_sheet |-> fin.balance_sheet,
               ratios |-> NewRatios(fin.income_statement)]
        e1 == TryRatio(e0, "Gross Margin", "Gross Profit",
                       e0.income_statement, "Total Revenue")
        e2 == TryRatio(e1, "Operating Margin", "Operating Income",
                       e1.income_statement, "Total Revenue")
        e3 == TryRatio(e2, "Net Profit Margin", "Net Income",
                       e2.income_statement, "Total Revenue")
        e4 == TryRatio(e3, "ROE", "Net Income",
                       e3.balance_sheet, "Total Stockholder Equity")
    IN  [raised |-> e4.raised,
         out |-> IF e4.raised = "none" THEN FillAndTranspose(e4.ratios) ELSE NoStatement,
         financials |-> [income_statement |-> e4.income_statement,
                         balance_sheet |-> e4.balance_sheet]]

\* the statements a caller may hold: each line item absent or present
RevenueRows == {<<4, 2>>, <<0, 4>>}
NumeratorRows == {<<1, 3>>, <<0, -2>>}
EquityRows == {<<4, 4>>, <<0, 2>>}
OtherPeriods == <<Date(2018, 6, 30), Date(2018, 12, 31)>>

RatioInputItems == <<"Total Revenue", "Gross Profit", "Operating Income", "Net Income">>

IncomeInputs ==
    {Statement(SelectSeq(RatioInputItems, LAMBDA c : c \in DOMAIN cells), LivePeriods, cells) :
        cells \in UNION {[S -> RevenueRows \cup NumeratorRows] : S \in SUBSET Range(RatioInputItems)}}

BalanceInputs ==
    {Statement(<<"Total Assets">>, LivePeriods, [c \in {"Total Assets"} |-> <<4, 4>>])}
    \cup {Statement(<<"Total Assets", "Total Stockholder Equity">>, ps,
                    [c \in {"Total Assets", "Total Stockholder Equity"} |-> row]) :
            ps \in {LivePeriods, OtherPeriods}, row \in EquityRows}

WellFormedIncome(inc) ==
    /\ (HasItem(inc, "Total Revenue") => inc.cells["Total Revenue"] \in RevenueRows)
    /\ \A c \in Range(inc.items) \ {"Total Revenue"} : inc.cells[c] \in NumeratorRows

InitRatios ==
    /\ now = Jan2019
    /\ rng = FreshRng
    /\ last = NoCall
    /\ dlog = <<>>
    /\ financials \in {[income_statement |-> inc, balance_sheet |-> bal] :
                          inc \in {x \in IncomeInputs : WellFormedIncome(x)},
                          bal \in BalanceInputs}
    /\ rlog = <<>>
    /\ pc = <<>>
    /\ loc = <<>>
    /\ build = [pandas |-> 2]
    /\ heap = <<>>
    /\ cache = NoCache
    /\ provider = "up"

CallCalculateFinancialRatios ==
    /\ Len(rlog) < MaxCalls
    /\ LET r == CalculateFinancialRatios(financials)
       IN  /\ rlog' = Append(rlog, [given |-> financials, raised |-> r.raised,
                                    out |-> r.out])
           /\ financials' = r.financials
    /\ UNCHANGED <<now, rng, last, dlog, pc, loc, build, heap, cache, provider>>

NextRatios == CallCalculateFinancialRatios

SpecRatios == InitRatios /\ [][NextRatios]_vars

-----------------------------------------------------------------------------
(* Claims on calculate_financial_ratios *)

Zeros(n) == [i \in 1..n |-> Num(0)]

MarginNumerator(ratio) ==
    IF ratio = "Gross Margin" THEN "Gross Profit"
    ELSE IF ratio = "Operating Margin" THEN "Operating Income"
    ELSE "Net Income"

Margins == {"Gross Margin", "Operating Margin", "Net Profit Margin"}

\* the value the call must give a margin whose two line items are present
MarginValue(inc, ratio, i) ==
    LET a == inc.cells[MarginNumerator(ratio)][i]
        b == inc.cells["Total Revenue"][i]
    IN  IF b = 0 THEN (IF a = 0 THEN Num(0) ELSE Inf(IF a > 0 THEN 1 ELSE -1))
        ELSE Num((a * 100) \div b)

RatiosOk(call) ==
    LET inc == call.given.income_statement
        bal == call.given.balance_sheet
        n == Len(inc.periods)
    IN  /\ call.raised = "none"
        /\ call.out.items = <<"Gross Margin", "Operating Margin", "Net Profit Margin", "ROE">>
        /\ call.out.periods = inc.periods
        /\ \A r \in Margins :
             IF HasItem(inc, "Total Revenue") /\ HasItem(inc, MarginNumerator(r))
             THEN \A i \in 1..n : call.out.cells[r][i] = MarginValue(inc, r, i)
             ELSE call.out.cells[r] = Zeros(n)
        /\ (~HasItem(inc, "Net Income") \/ ~HasItem(bal, "Total Stockholder Equity")
              => call.out.cells["ROE"] = Zeros(n))

\* C6: calculate_financial_ratios raises nothing on a missing line item and
\* gives the affected ratio 0 in every period: without 'Total Revenue' the
\* three margins are 0, without a numerator item or 'Total Stockholder
\* Equity' the ratio that needs it is 0, and a ratio whose items are present
\* is still computed.
C6_MissingItemGivesZero == \A i \in DOMAIN rlog : RatiosOk(rlog[i])

C6_Witness ==
    /\ Len(rlog) >= 1
    /\ ~HasItem(rlog[1].given.income_statement, "Total Revenue")
    /\ HasItem(rlog[1].given.income_statement, "Net Income")
    /\ HasItem(rlog[1].given.balance_sheet, "Total Stockholder Equity")
    /\ rlog[1].given.balance_sheet.periods = LivePeriods
    /\ rlog[1].out.cells["Gross Margin"] = Zeros(2)
    /\ rlog[1].out.cells["ROE"] # Zeros(2)

\* C7: calculate_financial_ratios is pure: a call leaves the income statement
\* and the balance sheet it was given exactly as they were, and two calls on
\* the same statements return the same ratio table.
C7_RatiosPure ==
    /\ \A i \in DOMAIN rlog : rlog[i].given = rlog[1].given /\ financials = rlog[i].given
    /\ \A i, j \in DOMAIN rlog : rlog[i].out = rlog[j].out

C7_Witness ==
    /\ Len(rlog) = 2
    /\ HasItem(financials.income_statement, "Total Revenue")
    /\ HasItem(financials.income_statement, "Gross Profit")
    /\ rlog[2].out.cells["Gross Margin"] = <<Num(25), Num(150)>>

RequiredIncomeItems == {"Total Revenue", "Gross Profit", "Operating Income", "Net Income"}

AllItemsPresent(call) ==
    /\ \A c \in RequiredIncomeItems : HasItem(call.given.income_statement, c)
    /\ HasItem(call.given.balance_sheet, "Total Stockholder Equity")

\* the periods of the balance sheet that carry the label d
Matching(bal, d) == {j \in DOMAIN bal.periods : bal.periods[j] = d}

\* C23: with every required line item present, the table has the four
\* ratios for exactly the periods of the income statement; in a period
\* whose Total Revenue is not 0 each margin is its numerator / Total Revenue
\* x 100, and in a period the balance sheet has with a Total Stockholder
\* Equity that is not 0, ROE is Net Income / that period's equity x 100.
C23_RatiosPerPeriod ==
    \A k \in DOMAIN rlog :
        AllItemsPresent(rlog[k]) =>
            LET inc == rlog[k].given.income_statement
                bal == rlog[k].given.balance_sheet
                out == rlog[k].out
            IN  /\ rlog[k].raised = "none"
                /\ out.periods = inc.periods
                /\ out.items = <<"Gross Margin", "Operating Margin", "Net Profit Margin", "ROE">>
                /\ \A i \in DOMAIN inc.periods :
                       /\ Len(out.cells["ROE"]) = Len(inc.periods)
                       /\ inc.cells["Total Revenue"][i] # 0 =>
                              \A r \in Margins :
                                  out.cells[r][i] =
                                      Num((inc.cells[MarginNumerator(r)][i] * 100)
                                          \div inc.cells["Total Revenue"][i])
                       /\ \A j \in Matching(bal, inc.periods[i]) :
                              bal.cells["Total Stockholder Equity"][j] # 0 =>
                                  out.cells["ROE"][i] =
                                      Num((inc.cells["Net Income"][i] * 100)
                                          \div bal.cells["Total Stockholder Equity"][j])

C23_Witness ==
    /\ Len(rlog) >= 1
    /\ AllItemsPresent(rlog[1])
    /\ rlog[1].given.balance_sheet.periods = OtherPeriods
    /\ rlog[1].given.income_statement.cells["Total Revenue"] = <<4, 2>>
    /\ rlog[1].given.income_statement.cells["Gross Profit"] = <<1, 3>>
    /\ rlog[1].out.cells["Gross Margin"] = <<Num(25), Num(150)>>
    /\ rlog[1].out.cells["ROE"] = <<Num(0), Num(150)>>

\* C24 (as claimed): every value of the ratio table is a finite number, and
\* a ratio whose denominator is 0 in a period is 0 there, whether its
\* numerator is 0 or not.
C24_EveryRatioFinite ==
    \A k \in DOMAIN rlog :
        rlog[k].raised = "none" =>
            LET inc == rlog[k].given.income_statement
                out == rlog[k].out
            IN  \A r \in Range(out.items) :
                    \A i \in DOMAIN out.cells[r] :
                        /\ out.cells[r][i].k = "num"
                        /\ (r \in Margins /\ HasItem(inc, "Total Revenue")
                               /\ inc.cells["Total Revenue"][i] = 0) =>
                               out.cells[r][i] = Num(0)

-----------------------------------------------------------------------------
(* numpy's global random generator *)

MaxOtherDraws == 2  \* values other code draws from the generator after seeding it

\* floats of the delivery series are fixed-point: FP units per vehicle,
\* GScale units per 1.0 of a growth factor or a standard normal value
FP == 1000
GScale == 100000000

\* the standard normal values RandomState(seed) yields, in order, times GScale
\* (MT19937 seeded by init_genrand, polar Box-Muller as numpy's legacy gauss)
StdNormalStream(seed) ==
    IF seed = 42
    THEN <<
      49671415, -13826430, 64768854, 152302986, -23415337, -23413696,
      157921282, 76743473, -46947439, 54256004, -46341769, -46572975,
      24196227, -191328024, -172491783, -56228753, -101283112, 31424733,
      -90802408, -141230370, 146564877, -22577630, 6752820, -142474819,
      -54438272, 11092259, -115099358, 37569802, -60063869, -29169375,
      -60170661, 185227818, -1349722, -105771093, 82254491, -122084365,
      20886360, -195967012, -132818605, 19686124, 73846658, 17136828,
      -11564828, -30110370, -147852199, -71984421, -46063877, 105712223,
      34361829, -176304016, 32408397, -38508228, -67692200, 61167629,
      103099952, 93128012, -83921752, -30921238, 33126343, 97554513,
      -47917424, -18565898, -110633497, -119620662, 81252582, 135624003,
      -7201012, 100353290, 36163603, -64511975, 36139561, 153803657,
      -3582604, 156464366, -261974510, 82190250, 8704707, -29900735>>
    ELSE <<
      169052570, -46593737, 3282016, 40751628, -78892303, 206557,
      -89039, -175472431, 101765801, 60049852, -62542897, -17154826,
      50529937, -26135642, -24274908, -145324141, 55458031, 12388091,
      27445992, -152652453, 165069969, 15433554, -38713994, 202907222,
      -4538603, -145067870, -40522786, -228831510, 104939655, -41647432,
      -74255353, 107247013, -165107559, 53542936, -206441480, -66215934,
      -120421985, 146197563, 176616088, -32941375, 84073324, -17998640,
      56806189, -75283720, -170833920, -180309866, 38312185, 224759505,
      26941163, -52460462, 191201886, 23730185, 10143399, 25257774,
      -13237720, -30947634, -143496347, 50162412, -9477545, 119308592,
      -36881847, -190636988, -9961063, 169953730, -38342312, -88985686,
      -119359192, -105001681, -30019374, -117998209, 149763912, -28263524,
      10864837, 143823952, 150331852, -21273297, 33197422, 73502658>>

OtherSeed == 7
DeliverySeedValue == 42

\* np.random.seed(s)
SeedRng(s) == [seed |-> s, pos |-> 0]

\* the k values np.random.normal(loc, scale, k) returns in state r:
\* loc + scale * z, with scale = 0.05 = 1/20
GrowthMultiplier == 110000000
ScaleInverse == 20
NormalValues(r, k) ==
    [i \in 1..k |->
        GrowthMultiplier + (StdNormalStream(r.seed)[r.pos + i] \div ScaleInverse)]

\* the generator state after k values were drawn
AfterDraw(r, k) == [r EXCEPT !.pos = @ + k]

\* floor(a * g / GScale) without leaving 32 bits: long multiplication in
\* limbs of Limb = sqrt(GScale)
Limb == 10000
MulScaled(a, g) ==
    LET a1 == a \div Limb
        a0 == a % Limb
        g1 == g \div Limb
        g0 == g % Limb
    IN  a1 * g1 + ((a1 * g0 + a0 * g1 + ((a0 * g0) \div Limb)) \div Limb)

\* floor(a * num / den) for a small fraction num / den
MulFrac(a, num, den) == (a \div den) * num + (((a % den) * num) \div den)

-----------------------------------------------------------------------------
(* get_tesla_delivery_data *)

BaseYear == 2019
BaseDeliveries == 63000
CybertruckStart == 19   \* 0-based position of 2023-12-31 in the index
\* the ramp without its first, small quarter
CybertruckRampShifted == <<10000, 20000, 30000, 40000, 50000, 60000, 70000>>

CybertruckRamp == <<2000, 10000, 20000, 30000, 40000, 50000, 60000>>

\* periods = (current_date.year - 2019) * 4 + (current_date.month // 3)
DeliveryPeriods(clock) == (clock.y - BaseYear) * 4 + (clock.m \div 3)

\* the same quarter ends, the newest first
QuartersNewestFirst(n) == [i \in 1..n |-> QuarterEndAt(BaseYear * 4 + n - i)]

\* pd.date_range('2019-03-31', periods=n, freq='Q')
Quarters(n) == [i \in 1..n |-> QuarterEndAt(BaseYear * 4 + i - 1)]

\* total_deliveries: [base], then the previous total times growth_factors[i]
\* for i = 1 .. n-1 (0-based); growth_factors[0] is drawn and not used
RECURSIVE TotalsFrom(_, _, _)
TotalsFrom(acc, factors, n) ==
    IF Len(acc) >= n THEN acc
    ELSE TotalsFrom(Append(acc, MulScaled(acc[Len(acc)], factors[Len(acc) + 1])),
                    factors, n)

TotalDeliveries(factors, n) == TotalsFrom(<<BaseDeliveries * FP>>, factors, n)

\* np.linspace(a/100, b/100, n)[i] as the fraction num / den (i is 0-based)
LinNum(a, b, n, i) == IF n = 1 THEN a ELSE a * (n - 1) + (b - a) * i
LinDen(n) == IF n = 1 THEN 100 ELSE 100 * (n - 1)

\* series * np.linspace(a/100, b/100, n)
Share(series, a, b) ==
    LET n == Len(series)
    IN  [i \in 1..n |-> MulFrac(series[i], LinNum(a, b, n, i - 1), LinDen(n))]

Minus(s, t) == [i \in 1..Len(s) |-> s[i] - t[i]]

\* astype(int) on a column of positive floats: the fraction is cut off
AsInt(series) == [i \in 1..Len(series) |-> series[i] \div FP]

DeliveryColumns ==
    <<"Total Deliveries", "Model 3/Y", "Model S/X", "Model 3", "Model Y",
      "Model S", "Model X", "Cybertruck">>

NoDelivery == [index |-> <<>>, cols |-> <<>>]

\* lines 193-233, given the index length n and the drawn growth factors
BuildDelivery(n, factors) ==
    LET total == TotalDeliveries(factors, n)
        needed == n - CybertruckStart
    IN  IF Len(total) # n
        THEN \* data['Total Deliveries'] = [63000] on an empty index
             [raised |-> "ValueError", frame |-> NoDelivery]
        ELSE IF n > CybertruckStart /\ needed > Len(CybertruckRamp)
        THEN \* data.iloc[start:, col] = the 7 ramp values, for more than 7 rows
             [raised |-> "ValueError", frame |-> NoDelivery]
        ELSE
        LET m3y == Share(total, 75, 95)
            sx == Minus(total, m3y)
            m3 == Share(m3y, 80, 45)
            my == Minus(m3y, m3)
            ms == Share(sx, 60, 50)
            mx == Minus(sx, ms)
            ct == [i \in 1..n |->
                     IF i > CybertruckStart THEN CybertruckRamp[i - CybertruckStart]
                     ELSE 0]
        IN  [raised |-> "none",
             frame |-> [index |-> Quarters(n),
                        cols |-> [c \in Range(DeliveryColumns) |->
                           CASE c = "Total Deliveries" -> AsInt(total)
                             [] c = "Model 3/Y" -> AsInt(m3y)
                             [] c = "Model S/X" -> AsInt(sx)
                             [] c = "Model 3" -> AsInt(m3)
                             [] c = "Model Y" -> AsInt(my)
                             [] c = "Model S" -> AsInt(ms)
                             [] c = "Model X" -> AsInt(mx)
                             [] OTHER -> ct]]]

\* the generator left as it was: no np.random.seed(42)
DeliveryUnseeded(r) == r

\* np.random.seed(42)
DeliverySeed(r) == SeedRng(DeliverySeedValue)

\* one call run alone: its result and the generator state it leaves
GetTeslaDeliveryData(clock, r) ==
    LET n == DeliveryPeriods(clock)
        seeded == DeliverySeed(r)
    IN  [out |-> BuildDelivery(n, NormalValues(seeded, n)),
         rng |-> AfterDraw(seeded, n)]

CallGetTeslaDeliveryData ==
    /\ Len(dlog) < MaxCalls
    /\ LET r == GetTeslaDeliveryData(now, rng)
       IN  /\ dlog' = Append(dlog, [seed0 |-> rng.seed, out |-> r.out])
           /\ rng' = r.rng
    /\ UNCHANGED <<now, last, financials, rlog, pc, loc, build, heap, cache, provider>>

\* other code of the process seeds the global generator
OtherCodeSeeds ==
    /\ rng # SeedRng(OtherSeed)
    /\ rng' = SeedRng(OtherSeed)
    /\ UNCHANGED <<now, last, dlog, financials, rlog, pc, loc, build, heap, cache, provider>>

\* other code of the process draws a value from the global generator
OtherCodeDraws ==
    /\ rng.pos < MaxOtherDraws
    /\ rng' = AfterDraw(rng, 1)
    /\ UNCHANGED <<now, last, dlog, financials, rlog, pc, loc, build, heap, cache, provider>>

InitDelivery ==
    /\ now \in Clock
    /\ rng = FreshRng
    /\ last = NoCall
    /\ dlog = <<>>
    /\ financials = NoFinancials
    /\ rlog = <<>>
    /\ pc = <<>>
    /\ loc = <<>>
    /\ build = [pandas |-> 2]
    /\ heap = <<>>
    /\ cache = NoCache
    /\ provider = "up"

NextDelivery ==
    CallGetTeslaDeliveryData \/ OtherCodeSeeds \/ OtherCodeDraws \/ Tick

SpecDelivery == InitDelivery /\ [][NextDelivery]_vars

-----------------------------------------------------------------------------
(* Claims on sequential calls of get_tesla_delivery_data *)

\* C8: two calls of get_tesla_delivery_data made one after the other in the
\* same current-date context return the same series in every column and
\* period, however the global generator was seeded or used between them.
C8_SequentialCallsAgree ==
    \A i, j \in DOMAIN dlog : dlog[i].out = dlog[j].out

C8_Witness ==
    /\ Len(dlog) = 2
    /\ dlog[1].seed0 = OtherSeed
    /\ dlog[2].seed0 = OtherSeed
    /\ dlog[2].out.raised = "none"
    /\ Len(dlog[2].out.frame.index) = 3

\* C10 (as claimed): in every returned table and every period,
\* 'Model 3/Y' + 'Model S/X' = 'Total Deliveries'.
C10_FamiliesSumToTotal ==
    \A k \in DOMAIN dlog :
        dlog[k].out.raised = "none" =>
            LET c == dlog[k].out.frame.cols
            IN  \A i \in 1..Len(c["Total Deliveries"]) :
                    c["Model 3/Y"][i] + c["Model S/X"][i] = c["Total Deliveries"][i]

-----------------------------------------------------------------------------
(* Claims on the table get_tesla_delivery_data returns *)

ReturnedTables ==
    {dlog[k].out.frame : k \in {j \in DOMAIN dlog : dlog[j].out.raised = "none"}}

\* C11 (as claimed): in every returned table and every period,
\* 'Model 3' + 'Model Y' = 'Model 3/Y' and 'Model S' + 'Model X' = 'Model S/X'.
C11_ModelsSumToFamily ==
    \A t \in ReturnedTables :
        \A i \in 1..Len(t.index) :
            /\ t.cols["Model 3"][i] + t.cols["Model Y"][i] = t.cols["Model 3/Y"][i]
            /\ t.cols["Model S"][i] + t.cols["Model X"][i] = t.cols["Model S/X"][i]

\* the quarter end of the calendar quarter that contains dt
CurrentQuarter(dt) == QuarterEndAt(dt.y * 4 + ((dt.m - 1) \div 3))

\* C12 (as claimed): every returned series has one period per calendar
\* quarter, the first 2019-Q1 and the last the quarter that contains the
\* current date.
C12_CoversCurrentQuarter ==
    \A t \in ReturnedTables :
        /\ Len(t.index) >= 1
        /\ t.index[1] = Date(2019, 3, 31)
        /\ t.index[Len(t.index)] = CurrentQuarter(now)
        /\ \A i \in 1..(Len(t.index) - 1) :
               QuarterIndex(t.index[i + 1]) = QuarterIndex(t.index[i]) + 1

\* C13 (as claimed): for every current date from March 2019 on, the call
\* completes and the Cybertruck column has a value for every period.
C13_AlwaysUsableTable ==
    DateNum(now) >= DateNum(Date(2019, 3, 1)) =>
        \A k \in DOMAIN dlog :
            /\ dlog[k].out.raised = "none"
            /\ Len(dlog[k].out.frame.cols["Cybertruck"]) = Len(dlog[k].out.frame.index)

\* C14: in every returned series, Cybertruck is 0 in each period before
\* 2023-Q4, and the k-th period counted from 2023-Q4 (k = 0, 1, ...) holds the
\* k-th value of the ramp 2000, 10000, 20000, 30000, 40000, 50000, 60000.
C14_CybertruckRamp ==
    \A t \in ReturnedTables :
        \A i \in 1..Len(t.index) :
            LET k == QuarterIndex(t.index[i]) - QuarterIndex(Date(2023, 12, 31))
            IN  t.cols["Cybertruck"][i] =
                    IF k < 0 THEN 0
                    ELSE <<2000, 10000, 20000, 30000, 40000, 50000, 60000>>[k + 1]

\* a returned series that runs through all seven ramp values
C14_Witness ==
    \E t \in ReturnedTables :
        /\ Len(t.index) = 26
        /\ t.index[26] = Date(2025, 6, 30)
        /\ t.cols["Cybertruck"][26] = 60000
        /\ t.cols["Cybertruck"][19] = 0

-----------------------------------------------------------------------------
(* Two callers of get_tesla_delivery_data at the same time: each statement *)
(* that touches the global generator is one step                           *)

Callers == {1, 2}

NoLocals == [n |-> 0, factors |-> <<>>, out |-> [raised |-> "unset", frame |-> NoDelivery]]

\* lines 177-187: read the clock, build the index
Begin(p) ==
    /\ pc[p] = "start"
    /\ pc' = [pc EXCEPT ![p] = "seed"]
    /\ loc' = [loc EXCEPT ![p].n = DeliveryPeriods(now)]
    /\ UNCHANGED <<now, rng, last, dlog, financials, rlog, build, heap, cache, provider>>

\* line 190: np.random.seed(42)
Seed(p) ==
    /\ pc[p] = "seed"
    /\ rng' = DeliverySeed(rng)
    /\ pc' = [pc EXCEPT ![p] = "draw"]
    /\ UNCHANGED <<now, last, dlog, financials, rlog, loc, build, heap, cache, provider>>

\* line 191: growth_factors = np.random.normal(growth_multiplier, 0.05, n)
Draw(p) ==
    /\ pc[p] = "draw"
    /\ loc' = [loc EXCEPT ![p].factors = NormalValues(rng, loc[p].n)]
    /\ rng' = AfterDraw(rng, loc[p].n)
    /\ pc' = [pc EXCEPT ![p] = "build"]
    /\ UNCHANGED <<now, last, dlog, financials, rlog, build, heap, cache, provider>>

\* lines 193-233: the table, from the caller's own locals
Build(p) ==
    /\ pc[p] = "build"
    /\ loc' = [loc EXCEPT ![p].out = BuildDelivery(loc[p].n, loc[p].factors)]
    /\ pc' = [pc EXCEPT ![p] = "done"]
    /\ UNCHANGED <<now, rng, last, dlog, financials, rlog, build, heap, cache, provider>>

InitConc ==
    /\ now \in Clock
    /\ rng = FreshRng
    /\ last = NoCall
    /\ dlog = <<>>
    /\ financials = NoFinancials
    /\ rlog = <<>>
    /\ pc = [p \in Callers |-> "start"]
    /\ loc = [p \in Callers |-> NoLocals]
    /\ build = [pandas |-> 2]
    /\ heap = <<>>
    /\ cache = NoCache
    /\ provider = "up"

NextConc == \E p \in Callers : Begin(p) \/ Seed(p) \/ Draw(p) \/ Build(p)

SpecConc == InitConc /\ [][NextConc]_vars

\* C9 (as claimed): under every interleaving of two concurrent callers, each
\* caller gets the series a call run alone in that date context returns.
C9_ConcurrentCallersAgree ==
    \A p \in DOMAIN pc :
        pc[p] = "done" => loc[p].out = GetTeslaDeliveryData(now, rng).out

-----------------------------------------------------------------------------
(* get_environmental_impact_data *)

EnvStartYear == 2018
EnvScale == 10000       \* fixed-point units per 1.0 of a growth series

\* pd.date_range(start='<y>-01-01', end=end, freq='Y'): the 31 Decembers from
\* the one of year y up to the last one that is <= end
YearRange(y, end) ==
    LET e == YearRollback(end).y
    IN  [i \in 1..(IF e >= y THEN e - y + 1 ELSE 0) |-> Date(y + i - 1, 12, 31)]

\* series = [base]; then series.append(series[-1] * num / den), n - 1 times
RECURSIVE GrowthFrom(_, _, _, _)
GrowthFrom(acc, num, den, n) ==
    IF Len(acc) >= n THEN acc
    ELSE GrowthFrom(Append(acc, MulFrac(acc[Len(acc)], num, den)), num, den, n)

Growth(base, num, den, n) == GrowthFrom(<<base>>, num, den, n)

\* Series.round(2), the result in hundredths
Round2(series) ==
    [i \in 1..Len(series) |->
        (series[i] + (EnvScale \div 200)) \div (EnvScale \div 100)]

\* the nearest integer instead of the integer part
RoundToInt(series) ==
    [i \in 1..Len(series) |-> (series[i] + (EnvScale \div 2)) \div EnvScale]

\* Series.astype(int) on positive floats
Truncate(series) == [i \in 1..Len(series) |-> series[i] \div EnvScale]

EnvColumns ==
    <<"Carbon Offset (Mt CO2)", "Solar Deployment (MW)", "Energy Storage (MWh)",
      "Supercharger Stations">>

NoEnv == [index |-> <<>>, cols |-> <<>>]

\* the whole function, for the current date clock
GetEnvironmentalImpactData(clock) ==
    LET years == YearRange(EnvStartYear, clock)
        n == Len(years)
        \* 3.5 times 1.4, 200 times 1.3, 1000 times 1.5, 1100 times 1.35
        carbon_offset == Growth((35 * EnvScale) \div 10, 7, 5, n)
        solar_deployment == Growth(200 * EnvScale, 13, 10, n)
        storage_deployment == Growth(1000 * EnvScale, 3, 2, n)
        superchargers == Growth(1100 * EnvScale, 27, 20, n)
    IN  IF n = 0
        THEN \* data[column] = [base] on an empty index
             [raised |-> "ValueError", frame |-> NoEnv]
        ELSE [raised |-> "none",
              frame |-> [index |-> years,
                         cols |-> [c \in Range(EnvColumns) |->
                            CASE c = "Carbon Offset (Mt CO2)" -> Round2(carbon_offset)
                              [] c = "Solar Deployment (MW)" -> Truncate(solar_deployment)
                              [] c = "Energy Storage (MWh)" -> Truncate(storage_deployment)
                              [] OTHER -> Truncate(superchargers)]]]

CallGetEnvironmentalImpactData ==
    /\ LET r == GetEnvironmentalImpactData(now)
       IN  last' = [op |-> "get_environmental_impact_data", clock |-> now,
                    raised |-> r.raised, result |-> r.frame]
    /\ UNCHANGED <<now, rng, dlog, financials, rlog, pc, loc, build, heap, cache, provider>>

-----------------------------------------------------------------------------
(* get_ev_market_share_data *)

YearMargin == 2     \* how far outside the recorded years a request may be

\* the 2023 entry with the 'Others' remainder left at its 2022 value
MarketShare2023Stale ==
    ("Tesla" :> 19) @@ ("BYD" :> 17) @@ ("Volkswagen" :> 9) @@ ("SAIC" :> 8)
    @@ ("Hyundai-Kia" :> 7) @@ ("Stellantis" :> 6) @@ ("BMW" :> 5)
    @@ ("Others" :> 31)

MarketShare2023 ==
    ("Tesla" :> 19) @@ ("BYD" :> 17) @@ ("Volkswagen" :> 9) @@ ("SAIC" :> 8)
    @@ ("Hyundai-Kia" :> 7) @@ ("Stellantis" :> 6) @@ ("BMW" :> 5)
    @@ ("Others" :> 29)

\* the market_share dict
MarketShare ==
    (2018 :> (("Tesla" :> 12) @@ ("BAIC" :> 8) @@ ("BYD" :> 7) @@ ("BMW" :> 6)
            @@ ("Nissan" :> 6) @@ ("Volkswagen" :> 5) @@ ("Hyundai-Kia" :> 4)
            @@ ("Others" :> 52)))
    @@ (2019 :> (("Tesla" :> 16) @@ ("BAIC" :> 7) @@ ("BYD" :> 7) @@ ("Volkswagen" :> 7)
            @@ ("BMW" :> 5) @@ ("Nissan" :> 5) @@ ("Hyundai-Kia" :> 5)
            @@ ("Others" :> 48)))
    @@ (2020 :> (("Tesla" :> 18) @@ ("Volkswagen" :> 8) @@ ("SAIC" :> 7) @@ ("BYD" :> 6)
            @@ ("BMW" :> 5) @@ ("Hyundai-Kia" :> 5) @@ ("Nissan" :> 4)
            @@ ("Others" :> 47)))
    @@ (2021 :> (("Tesla" :> 21) @@ ("Volkswagen" :> 11) @@ ("SAIC" :> 8) @@ ("BYD" :> 7)
            @@ ("Hyundai-Kia" :> 6) @@ ("BMW" :> 5) @@ ("Stellantis" :> 5)
            @@ ("Others" :> 37)))
    @@ (2022 :> (("Tesla" :> 23) @@ ("BYD" :> 11) @@ ("Volkswagen" :> 10) @@ ("SAIC" :> 7)
            @@ ("Hyundai-Kia" :> 7) @@ ("Stellantis" :> 6) @@ ("BMW" :> 5)
            @@ ("Others" :> 31)))
    @@ (2023 :> MarketShare2023)

\* the first recorded year
EarliestYear(table) == CHOOSE y \in DOMAIN table : \A z \in DOMAIN table : z >= y

\* max(market_share.keys())
LatestYear(table) == CHOOSE y \in DOMAIN table : \A z \in DOMAIN table : z <= y

GetEvMarketShareData(year) ==
    IF year \in DOMAIN MarketShare THEN MarketShare[year]
    ELSE MarketShare[LatestYear(MarketShare)]

\* the years a caller asks for: the recorded ones and some on either side
RequestYears == (2018 - YearMargin)..(2023 + YearMargin)

CallGetEvMarketShareData ==
    /\ \E year \in RequestYears :
           last' = [op |-> "get_ev_market_share_data", year |-> year,
                    raised |-> "none", result |-> GetEvMarketShareData(year)]
    /\ UNCHANGED <<now, rng, dlog, financials, rlog, pc, loc, build, heap, cache, provider>>

InitSynth ==
    /\ now \in Clock
    /\ rng = FreshRng
    /\ last = NoCall
    /\ dlog = <<>>
    /\ financials = NoFinancials
    /\ rlog = <<>>
    /\ pc = <<>>
    /\ loc = <<>>
    /\ build = [pandas |-> 2]
    /\ heap = <<>>
    /\ cache = NoCache
    /\ provider = "up"

NextSynth ==
    CallGetEnvironmentalImpactData \/ CallGetEvMarketShareData \/ Tick

SpecSynth == InitSynth /\ [][NextSynth]_vars

-----------------------------------------------------------------------------
(* Claims on the environmental series and the market share snapshot *)

IsEnvCall == last.op = "get_environmental_impact_data"

\* C15 (as claimed): for every current date the environmental series has one
\* period per calendar year, the first 2018 and the last the year that
\* contains the current date.
C15_CoversCurrentYear ==
    (IsEnvCall /\ last.raised = "none") =>
        LET index == last.result.index
        IN  /\ index[1].y = 2018
            /\ index[Len(index)].y = last.clock.y
            /\ \A i \in 1..(Len(index) - 1) : index[i + 1].y = index[i].y + 1

IsShareCall == last.op = "get_ev_market_share_data"

RECURSIVE SumOver(_, _)
SumOver(f, keys) ==
    IF keys = {} THEN 0
    ELSE LET k == CHOOSE x \in keys : TRUE
         IN  f[k] + SumOver(f, keys \ {k})

\* C16: for every year asked for, recorded or not, the values of the returned
\* mapping sum to exactly 100.
C16_SharesSumTo100 ==
    IsShareCall => SumOver(last.result, DOMAIN last.result) = 100

\* a recorded year other than 2021
C16_Witness ==
    /\ IsShareCall
    /\ last.year = 2018
    /\ last.result["Tesla"] = 12
    /\ SumOver(last.result, DOMAIN last.result) = 100

\* C17: for a recorded year (2018 to 2023) the call returns the mapping
\* recorded for that year; for every other year, earlier or later, it returns
\* the mapping of 2023; it never raises.
C17_RecordedYearOrLatest ==
    IsShareCall =>
        /\ last.raised = "none"
        /\ last.year \in 2018..2023 => last.result = MarketShare[last.year]
        /\ last.year \notin 2018..2023 => last.result = MarketShare[2023]

\* a request for a year before the first recorded one
C17_Witness ==
    /\ IsShareCall
    /\ last.year = 2017
    /\ last.result["BYD"] = 17

-----------------------------------------------------------------------------
(* The adapter's synthesized tables side by side: the price placeholder,   *)
(* the statement placeholders, the delivery series and the environmental   *)
(* series, for every clock value                                           *)

InitAdapter ==
    /\ now \in Clock
    /\ rng = FreshRng
    /\ last = NoCall
    /\ dlog = <<>>
    /\ financials = NoFinancials
    /\ rlog = <<>>
    /\ pc = <<>>
    /\ loc = <<>>
    /\ build = [pandas |-> 2]
    /\ heap = <<>>
    /\ cache = NoCache
    /\ provider = "up"

\* one request at the clock value it started with: it fetches one of the
\* tables kept in `last`, and the delivery series any number of times
NextAdapter ==
    \/ last = NoCall /\ CallGetStockData
    \/ last = NoCall /\ CallGetFinancialStatements
    \/ last = NoCall /\ CallGetEnvironmentalImpactData
    \/ CallGetTeslaDeliveryData

SpecAdapter == InitAdapter /\ [][NextAdapter]_vars

\* the period timestamps of a table, as numbers that order them
DateKeys(index) == [i \in DOMAIN index |-> DateNum(index[i])]

StrictlyIncreasing(keys) == \A i \in 1..(Len(keys) - 1) : keys[i] < keys[i + 1]

\* the statements of the last call that are placeholders
PlaceholderStatements ==
    IF last.op = "get_financial_statements" /\ last.out.raised = "none"
    THEN {last.out[f[2]] : f \in {g \in {<<"income", "income_statement">>,
                                          <<"balance", "balance_sheet">>,
                                          <<"cash", "cash_flow">>} :
                                    last.prov[g[1]].kind = "empty"}}
    ELSE {}

\* C22: every table the adapter synthesizes itself has strictly increasing
\* period timestamps: the price placeholder of get_stock_data, the statement
\* placeholders, the delivery series and the environmental series, for every
\* current date and date range.
C22_PeriodsStrictlyIncreasing ==
    /\ (last.op = "get_stock_data" /\ last.prov.kind # "data"
           /\ last.out.raised = "none") =>
           StrictlyIncreasing(last.out.frame.index)
    /\ \A df \in PlaceholderStatements : StrictlyIncreasing(DateKeys(df.periods))
    /\ \A t \in ReturnedTables : StrictlyIncreasing(DateKeys(t.index))
    /\ (IsEnvCall /\ last.raised = "none") =>
           StrictlyIncreasing(DateKeys(last.result.index))

C22_Witness ==
    /\ Cardinality(ReturnedTables) = 1
    /\ \E t \in ReturnedTables : Len(t.index) = 9
    /\ IsEnvCall
    /\ Len(last.result.index) = 3

\* base x growth^i for i = 0, 1, ..., worked out exactly: 3.5 x 1.4^i in
\* hundredths, rounded; 200 x 1.3^i, 1000 x 1.5^i and 1100 x 1.35^i, the
\* integer part
CompoundGrowth ==
    [c \in Range(EnvColumns) |->
        CASE c = "Carbon Offset (Mt CO2)" ->
                 <<350, 490, 686, 960, 1345, 1882, 2635, 3689, 5165, 7231>>
          [] c = "Solar Deployment (MW)" ->
                 <<200, 260, 338, 439, 571, 742, 965, 1254, 1631, 2120>>
          [] c = "Energy Storage (MWh)" ->
                 <<1000, 1500, 2250, 3375, 5062, 7593, 11390, 17085, 25628, 38443>>
          [] c = "Supercharger Stations" ->
                 <<1100, 1485, 2004, 2706, 3653, 4932, 6658, 8989, 12135, 16383>>]

\* C25: in the environmental series the i-th period (i = 0 for 2018) holds
\* 3.5 x 1.4^i rounded to 2 decimals, 200 x 1.3^i, 1000 x 1.5^i and
\* 1100 x 1.35^i truncated to integers, and each of the four fields grows
\* strictly from one period to the next.
C25_CompoundGrowth ==
    (IsEnvCall /\ last.raised = "none") =>
        \A c \in Range(EnvColumns) :
            LET col == last.result.cols[c]
            IN  /\ Len(col) = Len(last.result.index)
                /\ \A i \in DOMAIN col : col[i] = CompoundGrowth[c][i]
                /\ StrictlyIncreasing(col)

C25_Witness ==
    /\ IsEnvCall
    /\ Len(last.result.index) = 7
    /\ last.result.index[1].y = 2018
    /\ last.result.cols["Solar Deployment (MW)"][6] = 742
    /\ last.result.cols["Carbon Offset (Mt CO2)"][7] = 2635

-----------------------------------------------------------------------------
(* Chart builders (visualizations.py): a chart is its title, its theme and *)
(* its traces, each a name, the values on the category axis (x), the       *)
(* values plotted against them (y) and a colour                            *)

MaxMetrics == 2     \* longest list of metric names asked of a chart
MaxRows == 2        \* most rows of a table handed to a chart

Themes == {"plotly_dark", "plotly_white"}

Trace(name, x, y, color) == [name |-> name, x |-> x, y |-> y, color |-> color]
Chart(title, theme, traces) == [title |-> title, theme |-> theme, traces |-> traces]
NoChart == Chart("", "", <<>>)

\* the outcome of calling a builder a second time, before that is done
NotRepeated == [raised |-> "not called", chart |-> NoChart]

\* every sequence over S of length 0 .. n
SeqsUpTo(S, n) == UNION {[1..k -> S] : k \in 0..n}

(* plot_financial_metrics *)

\* the period strings a caller passes, and str.lower() on them
PeriodArgs == {"Quarterly", "Annual", "quarterly", "QUARTERLY", "Monthly"}
Lower(s) ==
    CASE s \in {"Quarterly", "quarterly", "QUARTERLY"} -> "quarterly"
      [] s = "Annual" -> "annual"
      [] s = "Monthly" -> "monthly"

\* [f'Q{i} {2023+(i//4)}' for i in range(1, 9)]
QuarterLabels == [i \in 1..8 |-> <<"Q", i, 2023 + (i \div 4)>>]
\* [f'FY {2019+i}' for i in range(5)]
AnnualLabels == [i \in 1..5 |-> <<"FY", 2019 + (i - 1)>>]

QuarterlyData ==
    ("Date" :> QuarterLabels)
    @@ ("Total Revenue" :> <<18000, 19500, 21000, 23000, 24500, 26000, 29000, 31000>>)
    @@ ("Gross Profit" :> <<4500, 4900, 5100, 5400, 5900, 6300, 7000, 7800>>)
    @@ ("Operating Income" :> <<2200, 2400, 2600, 2800, 3000, 3200, 3500, 3800>>)
    @@ ("Net Income" :> <<1800, 2000, 2200, 2400, 2600, 2800, 3100, 3300>>)
    @@ ("Total Assets" :> <<55000, 57000, 59000, 62000, 65000, 68000, 72000, 75000>>)
    @@ ("Total Liabilities" :> <<30000, 31000, 32000, 33000, 34000, 35000, 36000, 37000>>)
    @@ ("Total Stockholder Equity" :> <<25000, 26000, 27000, 29000, 31000, 33000, 36000, 38000>>)
    @@ ("Cash And Cash Equivalents" :> <<8000, 8500, 9000, 9500, 10000, 10500, 11000, 11500>>)
    @@ ("Operating Cash Flow" :> <<3000, 3200, 3400, 3600, 3800, 4000, 4200, 4400>>)
    @@ ("Capital Expenditure" :> <<-1500, -1600, -1700, -1800, -1900, -2000, -2100, -2200>>)
    @@ ("Free Cash Flow" :> <<1500, 1600, 1700, 1800, 1900, 2000, 2100, 2200>>)
    @@ ("Dividend Payout" :> <<0, 0, 0, 0, 0, 0, 0, 0>>)

AnnualData ==
    ("Date" :> AnnualLabels)
    @@ ("Total Revenue" :> <<18000, 21000, 24500, 29000, 31000>>)
    @@ ("Gross Profit" :> <<4500, 5100, 5900, 7000, 7800>>)
    @@ ("Operating Income" :> <<2200, 2600, 3000, 3500, 3800>>)
    @@ ("Net Income" :> <<1800, 2200, 2600, 3100, 3300>>)
    @@ ("Total Assets" :> <<55000, 59000, 65000, 72000, 75000>>)
    @@ ("Total Liabilities" :> <<30000, 32000, 34000, 36000, 37000>>)
    @@ ("Total Stockholder Equity" :> <<25000, 27000, 31000, 36000, 38000>>)
    @@ ("Cash And Cash Equivalents" :> <<8000, 9000, 10000, 11000, 11500>>)
    @@ ("Operating Cash Flow" :> <<3000, 3400, 3800, 4200, 4400>>)
    @@ ("Capital Expenditure" :> <<-1500, -1700, -1900, -2100, -2200>>)
    @@ ("Free Cash Flow" :> <<1500, 1700, 1900, 2100, 2200>>)
    @@ ("Dividend Payout" :> <<0, 0, 0, 0, 0>>)

\* [1000 * (i+1) for i in range(n)]
Fallback(n) == [i \in 1..n |-> 1000 * i]

\* a dict: its keys in insertion order, and the value of each key
Dict(keys, vals) == [keys |-> keys, vals |-> vals]

\* d[key] = value: a new key goes last, a known key keeps its place
SetItem(d, key, value) ==
    Dict(IF key \in Range(d.keys) THEN d.keys ELSE Append(d.keys, key),
         (key :> value) @@ d.vals)

\* lines 166-172: the loop over the requested metrics
RECURSIVE DataSubsetFrom(_, _, _, _)
DataSubsetFrom(acc, data, metrics, i) ==
    IF i > Len(metrics) THEN acc
    ELSE LET metric == metrics[i]
             series == IF metric \in DOMAIN data THEN data[metric]
                       ELSE Fallback(Len(data["Date"]))
         IN  DataSubsetFrom(SetItem(acc, metric, series), data, metrics, i + 1)

DataSubset(data, metrics) ==
    DataSubsetFrom(Dict(<<"Date">>, "Date" :> data["Date"]), data, metrics, 1)

\* DataFrame.melt(id_vars='Date', var_name='Metric', value_name='Value') on
\* the frame of a dict of equal-length columns: the rows of the long frame,
\* one block of rows per column other than 'Date'
MeltRows(df) ==
    LET value_vars == SelectSeq(df.keys, LAMBDA k : k # "Date")
        n == Len(df.vals["Date"])
    IN  [r \in 1..(Len(value_vars) * n) |->
            LET var == value_vars[((r - 1) \div n) + 1]
                i == ((r - 1) % n) + 1
            IN  [Date |-> df.vals["Date"][i], Metric |-> var,
                 Value |-> df.vals[var][i]]]

\* melt refuses a frame that has a column named like value_name: pandas 2.0
\* and later raise ValueError, earlier versions warn and go on
Melt(df) ==
    IF "Value" \in Range(df.keys) /\ build.pandas >= 2
    THEN [raised |-> "ValueError", rows |-> <<>>]
    ELSE [raised |-> "none", rows |-> MeltRows(df)]

\* the values of a column in order of first appearance
RECURSIVE FirstSeenFrom(_, _, _)
FirstSeenFrom(acc, rows, i) ==
    IF i > Len(rows) THEN acc
    ELSE FirstSeenFrom(IF rows[i].Metric \in Range(acc) THEN acc
                       ELSE Append(acc, rows[i].Metric), rows, i + 1)

BarColors == <<"#FF3A33", "#22BBFF", "#9B59FF", "#27AE60">>

\* px.bar(data_long, x='Date', y='Value', color='Metric'): one trace per
\* value of 'Metric', the colours taken in turn
PxBar(rows) ==
    LET names == FirstSeenFrom(<<>>, rows, 1)
    IN  [k \in 1..Len(names) |->
            LET sel == SelectSeq(rows, LAMBDA r : r.Metric = names[k])
            IN  Trace(names[k],
                      [i \in 1..Len(sel) |-> sel[i].Date],
                      [i \in 1..Len(sel) |-> sel[i].Value],
                      BarColors[((k - 1) % Len(BarColors)) + 1])]

\* a variant that plots the first value of each line item of the statement
ChartDataFromStatement(financial_data, period) ==
    LET data == IF Lower(period) = "quarterly" THEN QuarterlyData ELSE AnnualData
    IN  [c \in Range(financial_data.items) |->
            [i \in DOMAIN data["Date"] |-> financial_data.cells[c][1]]] @@ data

\* lines 126-163: the table the chart is drawn from is written out in the
\* function; financial_data is not read
ChartData(financial_data, period) ==
    IF Lower(period) = "quarterly" THEN QuarterlyData ELSE AnnualData

PlotFinancialMetrics(financial_data, metrics, period, theme) ==
    LET data == ChartData(financial_data, period)
        dummy_data == DataSubset(data, metrics)
        data_long == Melt(dummy_data)
    IN  IF data_long.raised # "none"
        THEN [raised |-> data_long.raised, chart |-> NoChart]
        ELSE [raised |-> "none",
              chart |-> Chart(<<period, "Financial Metrics">>, theme,
                              PxBar(data_long.rows))]

\* the names asked for: two the chart has, one it has not, and the two
\* column names the chart's own frames use
MetricNames == {"Total Revenue", "Net Income", "EBITDA", "Date", "Value"}

FinancialTables == {CreateDefaultFinancialDf("annual", "income", Jan2019), LiveIncome}

CallPlotFinancialMetrics ==
    /\ last = NoCall
    /\ \E financial_data \in FinancialTables, metrics \in SeqsUpTo(MetricNames, MaxMetrics),
          period \in PeriodArgs, theme \in Themes :
          LET r == PlotFinancialMetrics(financial_data, metrics, period, theme)
          IN  last' = [op |-> "plot_financial_metrics", financial_data |-> financial_data,
                       metrics |-> metrics, period |-> period, theme |-> theme,
                       raised |-> r.raised, chart |-> r.chart,
                       left |-> financial_data, again |-> NotRepeated]
    /\ UNCHANGED <<now, rng, dlog, financials, rlog, pc, loc, build, heap, cache, provider>>

(* the tables handed to the builders that read one *)

Flat(n) == [i \in 1..n |-> 0]
Ramp(n) == [i \in 1..n |-> 1000 * i]

\* a DataFrame: its index and, for each column it has, the column's values
Table(index, cols) == [index |-> index, cols |-> cols]

\* tables of 0 .. MaxRows rows with any of the given columns present
ChartTables(columns) ==
    UNION {{Table([i \in 1..n |-> i], cols) : cols \in [present -> {Flat(n), Ramp(n)}]}
           : n \in 0..MaxRows, present \in SUBSET columns}

\* df[column]: KeyError for a column the frame does not have
HasColumns(df, columns) == \A i \in DOMAIN columns : columns[i] \in DOMAIN df.cols

KeyError == [raised |-> "KeyError", chart |-> NoChart]
Returned(chart) == [raised |-> "none", chart |-> chart]

RECURSIVE SumSeq(_)
SumSeq(series) ==
    IF series = <<>> THEN 0 ELSE series[1] + SumSeq(Tail(series))

(* plot_stock_history *)

\* Series.rolling(window=w).mean(): no value until w rows are in the window
RollingMean(series, w) ==
    [i \in 1..Len(series) |->
        IF i < w THEN NaN
        ELSE [k |-> "mean", sum |-> SumSeq(SubSeq(series, i - w + 1, i)), n |-> w]]

PlotStockHistory(stock_data, theme) ==
    IF ~HasColumns(stock_data, <<"Close", "Volume">>) THEN KeyError
    ELSE Returned(Chart("Tesla Stock Price History", theme,
            <<Trace("Stock Price", stock_data.index, stock_data.cols["Close"], "#FF3A33"),
              Trace("Volume", stock_data.index, stock_data.cols["Volume"],
                    "rgba(180, 180, 180, 0.4)"),
              Trace("50-Day MA", stock_data.index,
                    RollingMean(stock_data.cols["Close"], 50), "#22BBFF"),
              Trace("200-Day MA", stock_data.index,
                    RollingMean(stock_data.cols["Close"], 200), "#9B59FF")>>))

CallPlotStockHistory ==
    /\ last = NoCall
    /\ \E stock_data \in ChartTables({"Open", "Close", "Volume"}), theme \in Themes :
          LET r == PlotStockHistory(stock_data, theme)
          IN  last' = [op |-> "plot_stock_history", table |-> stock_data,
                       theme |-> theme, raised |-> r.raised, chart |-> r.chart,
                       left |-> stock_data, again |-> NotRepeated]
    /\ UNCHANGED <<now, rng, dlog, financials, rlog, pc, loc, build, heap, cache, provider>>

(* plot_delivery_trends *)

PlotDeliveryTrends(delivery_data, theme) ==
    IF ~HasColumns(delivery_data, <<"Total Deliveries", "Model 3/Y", "Model S/X">>)
    THEN KeyError
    ELSE Returned(Chart("Tesla Quarterly Vehicle Deliveries", theme,
            <<Trace("Total Deliveries", delivery_data.index,
                    delivery_data.cols["Total Deliveries"], "#E31937"),
              Trace("Model 3/Y", delivery_data.index,
                    delivery_data.cols["Model 3/Y"], "#1C9BF0"),
              Trace("Model S/X", delivery_data.index,
                    delivery_data.cols["Model S/X"], "#8E44AD")>>
            \o (IF "Cybertruck" \in DOMAIN delivery_data.cols
                THEN <<Trace("Cybertruck", delivery_data.index,
                             delivery_data.cols["Cybertruck"], "#27AE60")>>
                ELSE <<>>)))

CallPlotDeliveryTrends ==
    /\ last = NoCall
    /\ \E delivery_data \in
              ChartTables({"Total Deliveries", "Model 3/Y", "Model S/X", "Cybertruck"}),
          theme \in Themes :
          LET r == PlotDeliveryTrends(delivery_data, theme)
          IN  last' = [op |-> "plot_delivery_trends", table |-> delivery_data,
                       theme |-> theme, raised |-> r.raised, chart |-> r.chart,
                       left |-> delivery_data, again |-> NotRepeated]
    /\ UNCHANGED <<now, rng, dlog, financials, rlog, pc, loc, build, heap, cache, provider>>

(* plot_model_mix *)

ModelColors ==
    ("Model 3" :> "#1C9BF0") @@ ("Model Y" :> "#27AE60") @@ ("Model S" :> "#E31937")
    @@ ("Model X" :> "#8E44AD") @@ ("Cybertruck" :> "#F1C40F")

\* px.pie: one trace, a sector per model
PlotModelMix(delivery_data, theme) ==
    IF ~HasColumns(delivery_data, <<"Model 3", "Model Y", "Model S", "Model X">>)
    THEN KeyError
    ELSE LET models ==
                 <<"Model 3", "Model Y", "Model S", "Model X">>
                 \o (IF /\ "Cybertruck" \in DOMAIN delivery_data.cols
                        /\ SumSeq(delivery_data.cols["Cybertruck"]) > 0
                     THEN <<"Cybertruck">> ELSE <<>>)
         IN  Returned(Chart("Vehicle Delivery Breakdown by Model", theme,
                 <<Trace("", models,
                         [i \in 1..Len(models) |-> SumSeq(delivery_data.cols[models[i]])],
                         [i \in 1..Len(models) |-> ModelColors[models[i]]])>>))

CallPlotModelMix ==
    /\ last = NoCall
    /\ \E delivery_data \in
              ChartTables({"Model 3", "Model Y", "Model S", "Model X", "Cybertruck"}),
          theme \in Themes :
          LET r == PlotModelMix(delivery_data, theme)
          IN  last' = [op |-> "plot_model_mix", table |-> delivery_data,
                       theme |-> theme, raised |-> r.raised, chart |-> r.chart,
                       left |-> delivery_data, again |-> NotRepeated]
    /\ UNCHANGED <<now, rng, dlog, financials, rlog, pc, loc, build, heap, cache, provider>>

(* get_sustainability_metrics and plot_sustainability_radar *)

\* a MetricSet: an ordered dict, here the sequence of its items
GetSustainabilityMetrics ==
    <<[name |-> "Renewable Energy Use", value |-> 85],
      [name |-> "Water Recycling", value |-> 70],
      [name |-> "Waste Reduction", value |-> 65],
      [name |-> "Battery Recycling", value |-> 90],
      [name |-> "Carbon Footprint Reduction", value |-> 75],
      [name |-> "Sustainable Materials", value |-> 60]>>

\* the MetricSets given to the chart: the adapter's own, with any of its
\* metrics left out
MetricSets ==
    {SelectSeq(GetSustainabilityMetrics, LAMBDA item : item.name \in keep) :
        keep \in SUBSET {GetSustainabilityMetrics[i].name :
                            i \in DOMAIN GetSustainabilityMetrics}}

IndustryAvg == <<50, 40, 35, 30, 45, 30>>

PlotSustainabilityRadar(sustainability_data, theme) ==
    LET categories == [i \in DOMAIN sustainability_data |-> sustainability_data[i].name]
        values == [i \in DOMAIN sustainability_data |-> sustainability_data[i].value]
    IN  Returned(Chart("Sustainability Performance (% of Target)", theme,
            <<Trace("Tesla Sustainability", categories, values, "#27AE60"),
              Trace("Industry Average", categories, IndustryAvg, "#95A5A6")>>))

CallPlotSustainabilityRadar ==
    /\ last = NoCall
    /\ \E sustainability_data \in MetricSets, theme \in Themes :
          LET r == PlotSustainabilityRadar(sustainability_data, theme)
          IN  last' = [op |-> "plot_sustainability_radar",
                       metric_set |-> sustainability_data, theme |-> theme,
                       raised |-> r.raised, chart |-> r.chart,
                       left |-> sustainability_data, again |-> NotRepeated]
    /\ UNCHANGED <<now, rng, dlog, financials, rlog, pc, loc, build, heap, cache, provider>>

(* plot_normalized_stock_comparison *)

MaxTickers == 2     \* longest list of competitor tickers asked of the chart

CompetitorTickers == {"F", "GM"}

\* the date ranges the price frames are fetched for: one that ends before it
\* starts and one of three days
FetchRanges == {<<1, 0>>, <<0, 2>>}

\* the frames get_stock_data hands out: a placeholder without rows, a
\* placeholder of rows without values (the provider failed or had nothing)
\* and the provider's rows
PriceFrames ==
    UNION {{GetStockData("F", d[1], d[2], prov).frame : prov \in DownloadOutcomes(d[1], d[2])}
           : d \in FetchRanges}

\* get_competitor_data: a frame of get_stock_data for each ticker asked for
CompetitorData == UNION {[have -> PriceFrames] : have \in SUBSET CompetitorTickers}

\* the closing price the provider quotes for a day
Quote(day) == 200 + 100 * day

\* df['Close'] as float64 values
CloseOf(df) ==
    [r \in DOMAIN df.index |->
        IF df.cells[r]["Close"] = "NaN" THEN NaN ELSE Num(Quote(df.index[r]))]

\* series / series.iloc[0] * 100: NaN wherever either operand is NaN
Normalized(series) ==
    [r \in DOMAIN series |->
        IF series[r] = NaN \/ series[1] = NaN THEN NaN
        ELSE Div100(series[r].v, series[1].v)]

\* DataFrame.empty: an axis of length 0
FrameEmpty(df) == Len(df.index) = 0 \/ Len(df.columns) = 0

\* a variant that keeps the series as a new column of the frame
AssignedToFrame(df, name, series) ==
    [index |-> df.index,
     columns |-> Append(df.columns, name),
     cells |-> [r \in DOMAIN df.index |-> (name :> series[r]) @@ df.cells[r]]]

\* tesla_normalized = ...: the series is bound to a local name, the frame
\* it was computed from is not written to
AssignedToLocal(df, name, series) == df

CompetitorColors == <<"#1C9BF0", "#27AE60", "#8E44AD", "#F1C40F", "#E67E22", "#3498DB">>

\* lines 548-564: the loop over the tickers
RECURSIVE CompetitorTracesFrom(_, _, _, _)
CompetitorTracesFrom(acc, competitor_data, tickers, i) ==
    IF i > Len(tickers) THEN acc
    ELSE LET ticker == tickers[i]
         IN  IF ticker \notin DOMAIN competitor_data \/ FrameEmpty(competitor_data[ticker])
             THEN CompetitorTracesFrom(acc, competitor_data, tickers, i + 1)
             ELSE CompetitorTracesFrom(
                      Append(acc, Trace(ticker, competitor_data[ticker].index,
                                        Normalized(CloseOf(competitor_data[ticker])),
                                        CompetitorColors[((i - 1) % Len(CompetitorColors)) + 1])),
                      competitor_data, tickers, i + 1)

\* the result, and the two arguments as the call leaves them
PlotNormalizedStockComparison(tesla_data, competitor_data, tickers, theme) ==
    IF Len(tesla_data.index) = 0
    THEN [raised |-> "IndexError", chart |-> NoChart,
          left |-> <<tesla_data, competitor_data>>]
    ELSE LET tesla_normalized == Normalized(CloseOf(tesla_data))
         IN  [raised |-> "none",
              chart |-> Chart("Normalized Stock Performance Comparison (First Day = 100)",
                              theme,
                              CompetitorTracesFrom(
                                  <<Trace("TSLA", tesla_data.index, tesla_normalized,
                                          "#E31937")>>,
                                  competitor_data, tickers, 1)),
              left |-> <<AssignedToLocal(tesla_data, "tesla_normalized", tesla_normalized),
                         competitor_data>>]

CallPlotNormalizedStockComparison ==
    /\ last = NoCall
    /\ \E tesla_data \in PriceFrames, competitor_data \in CompetitorData,
          tickers \in SeqsUpTo(CompetitorTickers, MaxTickers), theme \in Themes :
          LET r == PlotNormalizedStockComparison(tesla_data, competitor_data, tickers, theme)
          IN  last' = [op |-> "plot_normalized_stock_comparison",
                       tesla_data |-> tesla_data, competitor_data |-> competitor_data,
                       tickers |-> tickers, theme |-> theme,
                       raised |-> r.raised, chart |-> r.chart,
                       left |-> r.left, again |-> NotRepeated]
    /\ UNCHANGED <<now, rng, dlog, financials, rlog, pc, loc, build, heap, cache, provider>>

(* a builder called once more with what the first call left of its inputs *)

Outcome(r) == [raised |-> r.raised, chart |-> r.chart]

Replay(call) ==
    CASE call.op = "plot_stock_history" -> PlotStockHistory(call.left, call.theme)
      [] call.op = "plot_financial_metrics" ->
             PlotFinancialMetrics(call.left, call.metrics, call.period, call.theme)
      [] call.op = "plot_delivery_trends" -> PlotDeliveryTrends(call.left, call.theme)
      [] call.op = "plot_model_mix" -> PlotModelMix(call.left, call.theme)
      [] call.op = "plot_sustainability_radar" ->
             PlotSustainabilityRadar(call.left, call.theme)
      [] call.op = "plot_normalized_stock_comparison" ->
             Outcome(PlotNormalizedStockComparison(call.left[1], call.left[2],
                                                   call.tickers, call.theme))

Repeat ==
    /\ last # NoCall
    /\ last.again = NotRepeated
    /\ last' = [last EXCEPT !.again = Replay(last)]
    /\ UNCHANGED <<now, rng, dlog, financials, rlog, pc, loc, build, heap, cache, provider>>

\* st.rerun(): the script runs again; the figures of the last run are gone
Rerun ==
    /\ last # NoCall
    /\ last' = NoCall
    /\ UNCHANGED <<now, rng, dlog, financials, rlog, pc, loc, build, heap, cache, provider>>

InitChart ==
    /\ now = Jan2019
    /\ rng = FreshRng
    /\ last = NoCall
    /\ dlog = <<>>
    /\ financials = NoFinancials
    /\ rlog = <<>>
    /\ pc = <<>>
    /\ loc = <<>>
    /\ build \in {[pandas |-> 1], [pandas |-> 2]}
    /\ heap = <<>>
    /\ cache = NoCache
    /\ provider = "up"

NextChart ==
    \/ CallPlotStockHistory
    \/ CallPlotFinancialMetrics
    \/ CallPlotDeliveryTrends
    \/ CallPlotModelMix
    \/ CallPlotSustainabilityRadar
    \/ CallPlotNormalizedStockComparison
    \/ Repeat
    \/ Rerun

SpecChart == InitChart /\ [][NextChart]_vars

-----------------------------------------------------------------------------
(* filter_delivery_data: tables are objects; a caller holds the one it     *)
(* passed and the one it got back, and may write to the latter             *)

MaxPeriods == 5     \* most periods of a table handed to the filter

TimePeriods == {"Last Quarter", "Last Year", "All Time", "Last Month"}

\* df.iloc[-n:]: the last n rows, all of them when there are fewer
LastRows(df, n) ==
    LET len == Len(df.index)
        from == IF len > n THEN len - n + 1 ELSE 1
    IN  Table(SubSeq(df.index, from, len),
              [c \in DOMAIN df.cols |-> SubSeq(df.cols[c], from, len)])

\* a variant that hands back the object it was given
SameObject(objects, id, value) == [heap |-> objects, id |-> id]

\* .copy(): a new object that holds the value
Copy(objects, id, value) == [heap |-> Append(objects, value), id |-> Len(objects) + 1]

\* the call on the object `id`: the objects after it and the one returned
FilterDeliveryData(objects, id, time_period) ==
    LET delivery_data == objects[id]
    IN  IF time_period = "Last Quarter"
        THEN Copy(objects, id, LastRows(delivery_data, 1))
        ELSE IF time_period = "Last Year"
        THEN Copy(objects, id, LastRows(delivery_data, 4))
        ELSE Copy(objects, id, delivery_data)

CallFilterDeliveryData ==
    /\ last = NoCall
    /\ \E time_period \in TimePeriods :
          LET r == FilterDeliveryData(heap, 1, time_period)
          IN  /\ heap' = r.heap
              /\ last' = [op |-> "filter_delivery_data", time_period |-> time_period,
                          given |-> 1, before |-> heap[1],
                          result |-> r.id, returned |-> r.heap[r.id],
                          modified |-> FALSE]
    /\ UNCHANGED <<now, rng, dlog, financials, rlog, pc, loc, build, cache, provider>>

\* what a caller may do to the table it got back: overwrite a row of a
\* column, or add a column
Writes(df) ==
    {Table(df.index, [df.cols EXCEPT ![c][i] = -1]) :
        c \in DOMAIN df.cols, i \in DOMAIN df.index}
    \cup {Table(df.index, ("Note" :> Flat(Len(df.index))) @@ df.cols)}

ModifyResult ==
    /\ last # NoCall
    /\ ~last.modified
    /\ \E df \in Writes(heap[last.result]) :
          heap' = [heap EXCEPT ![last.result] = df]
    /\ last' = [last EXCEPT !.modified = TRUE]
    /\ UNCHANGED <<now, rng, dlog, financials, rlog, pc, loc, build, cache, provider>>

DeliveryTables ==
    UNION {{Table([i \in 1..n |-> i], ("Total Deliveries" :> col)) :
               col \in {Ramp(n), Flat(n)}} : n \in 0..MaxPeriods}

InitFilter ==
    /\ now = Jan2019
    /\ rng = FreshRng
    /\ last = NoCall
    /\ dlog = <<>>
    /\ financials = NoFinancials
    /\ rlog = <<>>
    /\ pc = <<>>
    /\ loc = <<>>
    /\ build = [pandas |-> 2]
    /\ heap \in {<<df>> : df \in DeliveryTables}
    /\ cache = NoCache
    /\ provider = "up"

NextFilter == CallFilterDeliveryData \/ ModifyResult

SpecFilter == InitFilter /\ [][NextFilter]_vars

IsFilterCall == last.op = "filter_delivery_data"

\* how many of the last periods a time period asks for
PeriodsAsked(time_period, len) ==
    IF time_period = "Last Quarter" THEN (IF len < 1 THEN len ELSE 1)
    ELSE IF time_period = "Last Year" THEN (IF len < 4 THEN len ELSE 4)
    ELSE len

\* C28: filter_delivery_data returns the last 1 period for 'Last Quarter',
\* the last 4 (all when there are fewer) for 'Last Year' and every period
\* otherwise, in the order and with the values of the given table; the
\* result is another object than the given table, which stays as it was
\* also after the result has been written to.
C28_FilterReturnsCopy ==
    IsFilterCall =>
        LET len == Len(last.before.index)
            k == PeriodsAsked(last.time_period, len)
        IN  /\ Len(last.returned.index) = k
            /\ \A i \in 1..k :
                   /\ last.returned.index[i] = last.before.index[len - k + i]
                   /\ \A c \in DOMAIN last.before.cols :
                          last.returned.cols[c][i] = last.before.cols[c][len - k + i]
            /\ DOMAIN last.returned.cols = DOMAIN last.before.cols
            /\ last.result # last.given
            /\ heap[last.given] = last.before

C28_Witness ==
    /\ IsFilterCall
    /\ last.time_period = "Last Year"
    /\ last.modified
    /\ last.before.index = <<1, 2, 3, 4, 5>>
    /\ last.returned.cols["Total Deliveries"] = <<2000, 3000, 4000, 5000>>
    /\ heap[last.result].cols["Total Deliveries"] = <<2000, -1, 4000, 5000>>
    /\ heap[last.given].cols["Total Deliveries"] = <<1000, 2000, 3000, 4000, 5000>>

-----------------------------------------------------------------------------
(* Claims on the chart builders *)

IsMetricsCall == last.op = "plot_financial_metrics"

TracesNamed(chart, name) == {k \in DOMAIN chart.traces : chart.traces[k].name = name}

AxisLength(period) ==
    IF period \in {"Quarterly", "quarterly", "QUARTERLY"} THEN 8 ELSE 5

\* C18 (as claimed): plot_financial_metrics does not raise, and each requested
\* metric yields exactly one series as long as the category axis (8 for
\* quarterly, 5 otherwise), a metric the chart's table lacks getting 1000,
\* 2000, 3000, ...
C18_EveryMetricOneSeries ==
    IsMetricsCall =>
        /\ last.raised = "none"
        /\ \A m \in Range(last.metrics) :
               /\ Cardinality(TracesNamed(last.chart, m)) = 1
               /\ \A k \in TracesNamed(last.chart, m) :
                      LET t == last.chart.traces[k]
                      IN  /\ Len(t.x) = AxisLength(last.period)
                          /\ Len(t.y) = AxisLength(last.period)
                          /\ m \notin DOMAIN QuarterlyData =>
                                 t.y = [i \in 1..Len(t.x) |-> 1000 * i]

IsTableChartCall ==
    last.op \in {"plot_stock_history", "plot_delivery_trends", "plot_model_mix"}

\* C19 (as claimed): plot_stock_history, plot_delivery_trends and
\* plot_model_mix return a chart and do not raise, whichever of the columns
\* they read the given table lacks.
C19_AbsentColumnNoFailure ==
    IsTableChartCall => (last.raised = "none" /\ last.chart # NoChart)

IsRadarCall == last.op = "plot_sustainability_radar"

\* C20 (as claimed): in the chart of plot_sustainability_radar both series
\* have as many values as the category axis has categories, for a MetricSet
\* of any size.
C20_RadarSeriesAligned ==
    IsRadarCall =>
        \A k \in DOMAIN last.chart.traces :
            /\ Len(last.chart.traces[k].x) = Len(last.metric_set)
            /\ Len(last.chart.traces[k].y) = Len(last.metric_set)

IsChartCall ==
    last.op \in {"plot_stock_history", "plot_financial_metrics", "plot_delivery_trends",
                 "plot_model_mix", "plot_sustainability_radar",
                 "plot_normalized_stock_comparison"}

\* the tables or MetricSet a builder was called with
GivenInputs(call) ==
    CASE call.op = "plot_financial_metrics" -> call.financial_data
      [] call.op = "plot_sustainability_radar" -> call.metric_set
      [] call.op = "plot_normalized_stock_comparison" ->
             <<call.tesla_data, call.competitor_data>>
      [] OTHER -> call.table

Repeated == last.again.raised # "not called"

C26_FinancialDataNotRead ==
    IsMetricsCall =>
        \A other \in FinancialTables :
            LET r == PlotFinancialMetrics(other, last.metrics, last.period, last.theme)
            IN  /\ r.raised = last.raised
                /\ last.raised = "none" => r.chart = last.chart

C26_Witness ==
    /\ IsMetricsCall
    /\ last.financial_data = LiveIncome
    /\ last.metrics = <<"Total Revenue">>
    /\ last.period = "Annual"
    /\ last.raised = "none"
    /\ last.chart.traces[1].y = <<18000, 21000, 24500, 29000, 31000>>

IsComparisonCall == last.op = "plot_normalized_stock_comparison"

\* a ticker whose data is missing or invalid: no entry, a table without
\* rows, or a table whose every value is 'no value'
MissingOrInvalid(competitor_data, ticker) ==
    \/ ticker \notin DOMAIN competitor_data
    \/ Len(competitor_data[ticker].index) = 0
    \/ \A r \in DOMAIN competitor_data[ticker].index :
           \A c \in Range(competitor_data[ticker].columns) :
               competitor_data[ticker].cells[r][c] = "NaN"

\* C29 (as claimed): in the chart of plot_normalized_stock_comparison a
\* ticker whose data is missing or invalid has no series, and every other
\* listed ticker has one series per listing, starting at 100.
C29_NoSeriesForInvalidTicker ==
    (IsComparisonCall /\ last.raised = "none") =>
        \A t \in CompetitorTickers :
            LET series == TracesNamed(last.chart, t)
                listed == {i \in DOMAIN last.tickers : last.tickers[i] = t}
            IN  IF MissingOrInvalid(last.competitor_data, t)
                THEN series = {}
                ELSE /\ Cardinality(series) = Cardinality(listed)
                     /\ \A k \in series : last.chart.traces[k].y[1] = Num(100)

-----------------------------------------------------------------------------
(* The page (tesla_3_key_visualizations.py): a script run loads the data   *)
(* sets through three functions memoized by st.cache_data(ttl=3600)        *)

TtlSeconds == 3600
StepSeconds == 2000     \* the time that passes between two looks at the page

\* the day the page is looked at
PageDay == Date(2019, 9, 15)

\* what the three widgets can be set to
PageRanges == {<<0, 2>>, <<1, 3>>}
PeriodOptions == {"Quarterly", "Annual"}

ProviderStates == {"down", "up"}

\* yf.download in each state of the provider
DownloadIn(state, start, end) ==
    CASE state = "down" ->
             [kind |-> "raise", exc |-> "ConnectionError", frame |-> NoFrame]
      [] state = "up" ->
             [kind |-> "data", exc |-> "none", frame |-> ProviderFrame(start, end)]

\* yf.Ticker and its statements in each state of the provider
TickerIn(state) ==
    CASE state = "down" ->
             [ticker |-> "ConnectionError", income |-> NotRead, balance |-> NotRead,
              cash |-> NotRead]
      [] state = "up" ->
             [ticker |-> "none",
              income |-> [kind |-> "data", exc |-> "none", frame |-> LiveIncome],
              balance |-> [kind |-> "data", exc |-> "none", frame |-> LiveBalance],
              cash |-> [kind |-> "data", exc |-> "none", frame |-> LiveCash]]

\* an entry is served while it is younger than the time-to-live
Served(entries, args) ==
    args \in DOMAIN entries /\ entries[args].age < TtlSeconds

\* a function under @st.cache_data(ttl=3600), called with args: an entry
\* that is served is the result and the function body does not run;
\* otherwise the body runs, and what it returns is stored.  An exception
\* of the body is stored nowhere and reaches the caller.
Memoized(entries, args, body) ==
    IF Served(entries, args)
    THEN [entries |-> entries, called |-> FALSE, raised |-> "none",
          value |-> entries[args].value]
    ELSE IF body.raised # "none"
    THEN [entries |-> entries, called |-> TRUE, raised |-> body.raised,
          value |-> body.value]
    ELSE [entries |-> (args :> [value |-> body.value, age |-> 0]) @@ entries,
          called |-> TRUE, raised |-> "none", value |-> body.value]

\* lines 208-210
LoadTeslaData(entries, start_date, end_date, state) ==
    LET r == GetStockData("TSLA", start_date, end_date,
                          DownloadIn(state, start_date, end_date))
    IN  Memoized(entries, <<start_date, end_date>>,
                 [raised |-> r.raised, value |-> r.frame])

\* lines 212-214
LoadFinancialStatements(entries, period, state, clock) ==
    LET r == GetFinancialStatements("TSLA", period, TickerIn(state), clock)
    IN  Memoized(entries, period, [raised |-> r.raised, value |-> r])

\* lines 216-218; the generator is left as the body leaves it, when it runs
LoadDeliveryData(entries, clock, r) ==
    LET d == GetTeslaDeliveryData(clock, r)
        m == Memoized(entries, <<>>, [raised |-> d.out.raised, value |-> d.out.frame])
    IN  [memo |-> m, rng |-> IF m.called THEN d.rng ELSE r]

Loaders == <<"load_tesla_data", "load_financial_statements", "load_delivery_data">>

\* lines 227-237: the loads of one script run, in order; an exception ends
\* the run
RunPage(c, r, state, clock, start_date, end_date, selected_period) ==
    LET period_param == IF selected_period = "Quarterly" THEN "quarterly" ELSE "annual"
        t == LoadTeslaData(c.load_tesla_data, start_date, end_date, state)
        f == LoadFinancialStatements(c.load_financial_statements, period_param,
                                     state, clock)
        d == LoadDeliveryData(c.load_delivery_data, clock, r)
        reached == IF t.raised # "none" THEN 1 ELSE IF f.raised # "none" THEN 2 ELSE 3
        did == [load_tesla_data |-> t, load_financial_statements |-> f,
                load_delivery_data |-> d.memo]
        ran == {Loaders[i] : i \in 1..reached}
    IN  [cache |-> [fn \in DOMAIN c |-> IF fn \in ran THEN did[fn].entries ELSE c[fn]],
         rng |-> IF reached = 3 THEN d.rng ELSE r,
         raised |-> did[Loaders[reached]].raised,
         ran |-> ran,
         called |-> {fn \in ran : did[fn].called},
         data |-> [fn \in ran |-> did[fn].value]]

\* the arguments a run passes to each memoized function
ArgsOf(fn, start_date, end_date, selected_period) ==
    CASE fn = "load_tesla_data" -> <<start_date, end_date>>
      [] fn = "load_financial_statements" ->
             (IF selected_period = "Quarterly" THEN "quarterly" ELSE "annual")
      [] fn = "load_delivery_data" -> <<>>

PageRecord(refreshed, before, w, period, run) ==
    [op |-> "page", refreshed |-> refreshed, before |-> before,
     start_date |-> w[1], end_date |-> w[2], selected_period |-> period,
     raised |-> run.raised, ran |-> run.ran, called |-> run.called, data |-> run.data]

\* a script run: the page is opened, or a widget is touched
ScriptRun ==
    /\ \E w \in PageRanges, period \in PeriodOptions :
          LET run == RunPage(cache, rng, provider, now, w[1], w[2], period)
          IN  /\ cache' = run.cache
              /\ rng' = run.rng
              /\ last' = PageRecord(FALSE, cache, w, period, run)
    /\ UNCHANGED <<now, dlog, financials, rlog, pc, loc, build, heap, provider>>

\* st.cache_data.clear()
Cleared(c) == [fn \in DOMAIN c |-> <<>>]

\* lines 195-197: 'Refresh Dashboard' clears the cache and reruns the script
RefreshDashboard ==
    /\ \E w \in PageRanges, period \in PeriodOptions :
          LET run == RunPage(Cleared(cache), rng, provider, now, w[1], w[2], period)
          IN  /\ cache' = run.cache
              /\ rng' = run.rng
              /\ last' = PageRecord(TRUE, Cleared(cache), w, period, run)
    /\ UNCHANGED <<now, dlog, financials, rlog, pc, loc, build, heap, provider>>

\* an entry past its time-to-live is not served and is not aged further
Older(age) ==
    IF age >= TtlSeconds THEN age ELSE age + StepSeconds

\* time passes on the same day, the page of the last run is left: every
\* entry gets older
TimePasses ==
    /\ cache' = [fn \in DOMAIN cache |->
                    [a \in DOMAIN cache[fn] |->
                        [cache[fn][a] EXCEPT !.age = Older(@)]]]
    /\ cache' # cache
    /\ last' = NoCall
    /\ UNCHANGED <<now, rng, dlog, financials, rlog, pc, loc, build, heap, provider>>

\* between two runs the provider fails or recovers
ProviderChanges ==
    /\ \E state \in ProviderStates \ {provider} : provider' = state
    /\ last' = NoCall
    /\ UNCHANGED <<now, rng, dlog, financials, rlog, pc, loc, build, heap, cache>>

InitPage ==
    /\ now = PageDay
    /\ rng = FreshRng
    /\ last = NoCall
    /\ dlog = <<>>
    /\ financials = NoFinancials
    /\ rlog = <<>>
    /\ pc = <<>>
    /\ loc = <<>>
    /\ build = [pandas |-> 2]
    /\ heap = <<>>
    /\ cache = NoCache
    /\ provider \in ProviderStates

NextPage == ScriptRun \/ RefreshDashboard \/ TimePasses \/ ProviderChanges

SpecPage == InitPage /\ [][NextPage]_vars

-----------------------------------------------------------------------------
(* Claims on the memoized loads *)

IsPageRun == last.op = "page"

RunArgs(fn) == ArgsOf(fn, last.start_date, last.end_date, last.selected_period)

\* C30 (as claimed): a script run that finds an entry younger than the
\* time-to-live for the arguments it passes gets that entry's result and
\* the adapter is not called for it, whatever the provider now does; and
\* the run that follows 'Refresh Dashboard' starts from an empty cache and
\* calls the adapter for each of the three data sets.
C30_MemoizedUntilRefresh ==
    IsPageRun =>
        /\ ~last.refreshed =>
               \A fn \in Range(Loaders) :
                   Served(last.before[fn], RunArgs(fn)) =>
                       /\ fn \notin last.called
                       /\ fn \in last.ran
                       /\ last.data[fn] = last.before[fn][RunArgs(fn)].value
        /\ last.refreshed =>
               /\ \A fn \in Range(Loaders) : DOMAIN last.before[fn] = {}
               /\ last.called = Range(Loaders)

====
